---- MODULE Spec2Model ----
(***************************************************************************)
(* LandRegistry (blockchain/contracts/LandRegistry.sol): an ERC721 token   *)
(* per land parcel, with role-gated registration, transfer, verification,  *)
(* valuation and status changes, and a pausable switch.                    *)
(*                                                                         *)
(* One step of the model is one transaction: a call of a public function   *)
(* by an externally chosen caller, with everything it calls, including the *)
(* onERC721Received callback of a recipient contract and the calls that    *)
(* callback makes back into the registry.  A call that reverts leaves the  *)
(* contract state as it was.                                               *)
(*                                                                         *)
(* The web client (frontend/src): Web3Provider, AuthProvider, the axios    *)
(* client of apiService, the home page's login button and the property     *)
(* registration form.  One step of that part is one run of JavaScript up   *)
(* to its next await: a user action, a wallet event, or the settling of a  *)
(* request, with the React effects the step's state changes trigger.       *)
(***************************************************************************)
EXTENDS Integers, Sequences, FiniteSets, Bags, TLC

\* ---------------------------------------------------------------- bounds
MaxProps == 2      \* registrations per behaviour
MaxTime  == 2      \* block timestamps 1..MaxTime
MaxValue == 1      \* values 0..MaxValue
MaxTx    == 3      \* steps per behaviour
MaxUiSteps == 11   \* steps of the web client per behaviour
MaxPending == 2    \* async calls in flight at once
MaxPageSteps == 6  \* steps of the pages per behaviour

\* ------------------------------------------------------------- addresses
ZERO      == "0x0"
Deployer  == "D"
Addr      == {"D", "C"}
Contracts == {"C"}          \* addresses with code (onERC721Received is called)

\* ----------------------------------------------------------------- roles
DEFAULT_ADMIN_ROLE == "DEFAULT_ADMIN_ROLE"
ADMIN_ROLE         == "ADMIN_ROLE"
NOTARY_ROLE        == "NOTARY_ROLE"
SURVEYOR_ROLE      == "SURVEYOR_ROLE"
TAX_AUTHORITY_ROLE == "TAX_AUTHORITY_ROLE"
Roles == {DEFAULT_ADMIN_ROLE, ADMIN_ROLE, NOTARY_ROLE, SURVEYOR_ROLE,
          TAX_AUTHORITY_ROLE}

\* ----------------------------------------------------------------- enums
PropertyType   == {"RESIDENTIAL", "COMMERCIAL", "INDUSTRIAL", "AGRICULTURAL",
                   "FOREST", "OTHER"}
PropertyStatus == {"ACTIVE", "DISPUTED", "FROZEN", "TRANSFERRED"}

\* ---------------------------------------------------------------- inputs
Ids       == 1 .. MaxProps
Locations == {"L1", "L2"}
Values    == 0 .. MaxValue
\* The attributes a notary supplies with a registration, besides the owner
\* and the location.
Deeds ==
  { [coordinates |-> "c1", area |-> 1, value |-> 0,
     propertyType |-> "RESIDENTIAL", documentHash |-> "h1", tokenURI |-> "u1"],
    [coordinates |-> "c2", area |-> 2, value |-> 1,
     propertyType |-> "FOREST", documentHash |-> "h2", tokenURI |-> "u2"],
    [coordinates |-> "c1", area |-> 0, value |-> 1,
     propertyType |-> "OTHER", documentHash |-> "h1", tokenURI |-> "u1"] }

\* The value of an unwritten slot of `properties`.
NoProperty ==
  [id |-> 0, location |-> "", coordinates |-> "", area |-> 0, value |-> 0,
   propertyType |-> "RESIDENTIAL", status |-> "ACTIVE", registrationDate |-> 0,
   lastTransferDate |-> 0, documentHash |-> "", registrar |-> ZERO,
   verified |-> FALSE]

VARIABLES
  propertyIdCounter,      \* _propertyIdCounter
  owners,                 \* ERC721 _owners
  tokenApprovals,         \* ERC721 _tokenApprovals
  operatorApprovals,      \* ERC721 _operatorApprovals, as <<owner, operator>>
  tokenURIs,              \* ERC721URIStorage _tokenURIs
  properties,             \* properties
  locationToPropertyId,   \* _locationToPropertyId
  ownerProperties,        \* _ownerProperties
  roles,                  \* AccessControl _roles[role].members
  paused,                 \* Pausable _paused
  now,                    \* timestamp of the latest block
  last,                   \* the events of the latest transaction that changed the storage
  txCount                 \* steps so far

cvars == <<propertyIdCounter, owners, tokenApprovals, operatorApprovals,
           tokenURIs, properties, locationToPropertyId, ownerProperties,
           roles, paused>>
rvars == <<propertyIdCounter, owners, tokenApprovals, operatorApprovals,
           tokenURIs, properties, locationToPropertyId, ownerProperties,
           roles, paused, now, last, txCount>>

\* ------------------------------------------------------- the web client
VARIABLES
  ethereum,        \* window.ethereum is defined
  walletAccount,   \* the account the wallet exposes to the page, or Null
  walletChain,     \* the chain the wallet is on
  account,         \* Web3Provider: account
  provider,        \* Web3Provider: provider (TRUE: a BrowserProvider)
  signer,          \* Web3Provider: signer, as the account it signs for
  chainId,         \* Web3Provider: chainId
  isConnecting,    \* Web3Provider: isConnecting
  contract,        \* Web3Provider: contract, as the account of its signer
  user,            \* AuthProvider: user
  isLoading,       \* AuthProvider: isLoading
  intervalAccount, \* the account in the closure of the refresh interval
  authToken,       \* localStorage 'auth_token'
  pending,         \* the async calls in flight, each at its await (a bag)
  needsReload,     \* window.location.href was assigned
  notes,           \* what the latest step showed, logged or threw
  uiSteps          \* steps of the web client so far

VARIABLES
  currentStep,     \* PropertyRegistration: currentStep
  isSubmitting,    \* PropertyRegistration: isSubmitting
  isValid,         \* PropertyRegistration: formState.isValid
  submissions      \* onSubmit calls awaiting the response of fetch

VARIABLES
  stats,           \* Dashboard: stats (TRUE once loaded)
  loading,         \* Dashboard: loading
  error,           \* Dashboard: error (TRUE once set)
  loads            \* loadDashboardData calls awaiting the response of fetch

VARIABLES
  query,            \* PropertySearch: query
  filters,          \* PropertySearch: filters (verifiedOnly)
  page,             \* PropertySearch: page
  totalCount,       \* PropertySearch: totalCount, in pages
  searchProperties, \* PropertySearch: properties, one element per page received
  searchLoading,    \* PropertySearch: loading
  debounced,        \* the arguments debouncedSearch holds until its timer fires
  searches          \* debouncedSearch invocations awaiting the response of fetch

VARIABLES
  pageNotes,       \* what the latest step of a page received, called or logged
  pageSteps        \* steps of the two pages so far

appvars  == <<ethereum, walletAccount, walletChain, account, provider, signer,
              chainId, isConnecting, contract, user, isLoading,
              intervalAccount, authToken, pending, needsReload, notes,
              uiSteps>>
formvars == <<currentStep, isSubmitting, isValid, submissions>>
dashvars == <<stats, loading, error, loads>>
searchvars == <<query, filters, page, totalCount, searchProperties,
                searchLoading, debounced, searches>>
pagevars == <<formvars, dashvars, searchvars, pageNotes, pageSteps>>
uivars   == <<appvars, pagevars>>
vars     == <<rvars, appvars, pagevars>>

\* null
Null == "null"
\* The accounts of the wallet.
Accounts == {"a1", "a2"}
\* CELO_NETWORKS.alfajores.chainId and CELO_NETWORKS.mainnet.chainId
ALFAJORES_CHAIN_ID == 44787
MAINNET_CHAIN_ID   == 42220
\* process.env.REACT_APP_CELO_NETWORK is not 'mainnet'.
CURRENT_NETWORK == [name |-> "Celo Alfajores Testnet", chainId |-> ALFAJORES_CHAIN_ID]
\* The chains the wallet can be on: the configured one and another.
Chains == {CURRENT_NETWORK.chainId, MAINNET_CHAIN_ID}
\* The bearer token the backend issues.
Token == "token"
\* The backend's user record of a wallet address; no user (null).
UserOf(a) == [wallet_address |-> a]
NoUser    == [wallet_address |-> Null]
\* No chain id (null).
NoChainId == 0

\* An async call in flight: the function, the await it is at, and the values
\* its closure and its local variables hold (Null where it has none).
Call(fn, pc, acct, sgn, usr) ==
  [fn |-> fn, pc |-> pc, acct |-> acct, sgn |-> sgn, usr |-> usr]

\* The client after the page has loaded and the mount effects have run:
\* every useState at its initial value; AuthProvider's effect has called
\* logout(), as no account is connected; Web3Provider's effect has started
\* tryAutoConnect when window.ethereum exists.
AfterMount(e) ==
  [account |-> Null, provider |-> FALSE, signer |-> Null, chainId |-> NoChainId,
   isConnecting |-> FALSE, contract |-> Null, user |-> NoUser,
   isLoading |-> FALSE, intervalAccount |-> Null, authToken |-> Null,
   pending |-> IF e THEN SetToBag({Call("tryAutoConnect", "eth_accounts",
                                        Null, Null, NoUser)})
               ELSE EmptyBag,
   needsReload |-> FALSE, notes |-> <<>>]

\* The client is in the state m, on a machine with or without a wallet.
AppIs(m, e, w, c) ==
  /\ ethereum = e /\ walletAccount = w /\ walletChain = c
  /\ account = m.account /\ provider = m.provider /\ signer = m.signer
  /\ chainId = m.chainId /\ isConnecting = m.isConnecting
  /\ contract = m.contract /\ user = m.user /\ isLoading = m.isLoading
  /\ intervalAccount = m.intervalAccount /\ authToken = m.authToken
  /\ pending = m.pending /\ needsReload = m.needsReload /\ notes = m.notes
  /\ uiSteps = 0

\* The arguments of a debouncedSearch invocation; no invocation waiting.
SearchArgs(searchQuery, searchFilters, pageNum) ==
  [searchQuery |-> searchQuery, searchFilters |-> searchFilters,
   pageNum |-> pageNum]
NoArgs == SearchArgs("", FALSE, 0 - 1)

\* PropertyRegistration, Dashboard and PropertySearch after their first
\* render and mount effects: every useState at its initial value, the
\* validation of the empty form not passed, Dashboard's effect has started
\* loadDashboardData and PropertySearch's effect has called debouncedSearch
\* for the initial query.
PagesMounted ==
  /\ currentStep = 1 /\ isSubmitting = FALSE /\ isValid = FALSE
  /\ submissions = 0
  /\ stats = FALSE /\ loading = TRUE /\ error = FALSE /\ loads = 1
  /\ query = "" /\ filters = FALSE /\ page = 0 /\ totalCount = 0
  /\ searchProperties = <<>> /\ searchLoading = FALSE
  /\ debounced = SearchArgs("", FALSE, 0) /\ searches = EmptyBag
  /\ pageNotes = <<>> /\ pageSteps = 0

\* The contract's storage as one value.
State ==
  [counter |-> propertyIdCounter, owners |-> owners,
   tokenApprovals |-> tokenApprovals, operatorApprovals |-> operatorApprovals,
   tokenURIs |-> tokenURIs, properties |-> properties,
   locationToPropertyId |-> locationToPropertyId,
   ownerProperties |-> ownerProperties, roles |-> roles, paused |-> paused,
   events |-> <<>>]

\* The storage part of s (the event log is not storage).
Storage(s) == [s EXCEPT !.events = <<>>]

\* emit: an event, kept as its name and the token it is about (0: none).
Emit(s, name, tokenId) ==
  [s EXCEPT !.events = Append(@, [name |-> name, id |-> tokenId])]

\* --------------------------------------------------------------- results
Revert(s, why) == [ok |-> FALSE, err |-> why, s |-> s]
Done(s)        == [ok |-> TRUE,  err |-> "",  s |-> s]

\* ------------------------------------------------------ inherited helpers
hasRole(s, role, holder) == holder \in s.roles[role]

exists_(s, tokenId) == tokenId \in Ids /\ s.owners[tokenId] # ZERO

ownerOf(s, tokenId) == s.owners[tokenId]

isApprovedForAll(s, owner, operator) == <<owner, operator>> \in s.operatorApprovals

isApprovedOrOwner(s, spender, tokenId) ==
  LET owner == ownerOf(s, tokenId)
  IN  \/ spender = owner
      \/ isApprovedForAll(s, owner, spender)
      \/ s.tokenApprovals[tokenId] = spender

\* ERC721._transfer without its check of the recipient: a transfer to the zero
\* address would leave the token without an owner.
transfer_AcceptsZeroAddress(s, from, to, tokenId) ==
  IF ownerOf(s, tokenId) # from THEN Revert(s, "incorrect owner")
  ELSE IF s.paused THEN Revert(s, "paused")
  ELSE Done(Emit([s EXCEPT !.tokenApprovals[tokenId] = ZERO,
                           !.owners[tokenId] = to], "Transfer", tokenId))

\* ERC721._transfer with a _beforeTokenTransfer that lacks whenNotPaused: the
\* inherited transfer functions would move tokens while the contract is
\* paused.
transfer_IgnoresPause(s, from, to, tokenId) ==
  IF ownerOf(s, tokenId) # from THEN Revert(s, "incorrect owner")
  ELSE IF to = ZERO THEN Revert(s, "zero address")
  ELSE Done(Emit([s EXCEPT !.tokenApprovals[tokenId] = ZERO,
                           !.owners[tokenId] = to], "Transfer", tokenId))

\* ERC721._transfer, with the registry's _beforeTokenTransfer (whenNotPaused).
transfer_(s, from, to, tokenId) ==
  IF ownerOf(s, tokenId) # from THEN Revert(s, "incorrect owner")
  ELSE IF to = ZERO THEN Revert(s, "zero address")
  ELSE IF s.paused THEN Revert(s, "paused")
  ELSE Done(Emit([s EXCEPT !.tokenApprovals[tokenId] = ZERO,
                           !.owners[tokenId] = to], "Transfer", tokenId))

\* ERC721._mint, with the registry's _beforeTokenTransfer (whenNotPaused).
mint_(s, to, tokenId) ==
  IF to = ZERO THEN Revert(s, "zero address")
  ELSE IF exists_(s, tokenId) THEN Revert(s, "already minted")
  ELSE IF s.paused THEN Revert(s, "paused")
  ELSE Done(Emit([s EXCEPT !.owners[tokenId] = to], "Transfer", tokenId))

\* ------------------------------------------------------------ the index
RECURSIVE IndexOf(_, _, _)
\* The first position >= i of ownerProps holding propertyId, or 0.
IndexOf(ownerProps, propertyId, i) ==
  IF i > Len(ownerProps) THEN 0
  ELSE IF ownerProps[i] = propertyId THEN i
  ELSE IndexOf(ownerProps, propertyId, i + 1)

\* _removePropertyFromOwner: overwrite the first occurrence with the last
\* element and pop.
removePropertyFromOwner(s, owner, propertyId) ==
  LET ownerProps == s.ownerProperties[owner]
      i == IndexOf(ownerProps, propertyId, 1)
  IN  IF i = 0 THEN s
      ELSE [s EXCEPT !.ownerProperties[owner] =
              SubSeq([ownerProps EXCEPT ![i] = ownerProps[Len(ownerProps)]],
                     1, Len(ownerProps) - 1)]

\* ------------------------------------------------------------- callbacks
RECURSIVE Exec(_, _, _)
RECURSIVE RunCalls(_, _, _)

\* The calls a recipient contract makes from onERC721Received, in order.  A
\* call that reverts is caught by the recipient and changes nothing.
RunCalls(s, calls, t) ==
  IF calls = <<>> THEN s
  ELSE LET r == Exec(s, Head(calls), t)
       IN  RunCalls(IF r.ok THEN r.s ELSE s, Tail(calls), t)

\* ERC721._checkOnERC721Received: an address without code accepts; a contract
\* runs its callback, which accepts (after any calls of its own) or rejects.
checkOnERC721Received(s, to, cb, t) ==
  IF to \notin Contracts THEN Done(s)
  ELSE IF ~cb.accept THEN Revert(s, "receiver")
  ELSE Done(RunCalls(s, cb.calls, t))

\* ERC721._safeMint
safeMint(s, to, tokenId, cb, t) ==
  LET m == mint_(s, to, tokenId)
  IN  IF ~m.ok THEN m ELSE checkOnERC721Received(m.s, to, cb, t)

\* ERC721URIStorage._setTokenURI
setTokenURI(s, tokenId, uri) ==
  IF ~exists_(s, tokenId) THEN Revert(s, "URI set of nonexistent token")
  ELSE Done([s EXCEPT !.tokenURIs[tokenId] = uri])

\* ------------------------------------------------- the registry's functions
\* The id registerProperty gives the new property and returns: the counter
\* after its increment.
newPropertyId(s) == s.counter + 1

\* The modifiers and the require statements of registerProperty: the
\* message of the first that fails, or "".
registerPropertyChecks_AdminMayRegister(s, c) ==
  IF ~(hasRole(s, NOTARY_ROLE, c.caller) \/ hasRole(s, ADMIN_ROLE, c.caller))
       THEN "role"
  ELSE IF s.paused THEN "paused"
  ELSE IF c.owner = ZERO THEN "Invalid owner address"
  ELSE IF c.location = "" THEN "Location cannot be empty"
  ELSE IF ~(c.deed.area > 0) THEN "Area must be greater than 0"
  ELSE IF s.locationToPropertyId[c.location] # 0
       THEN "Property already exists at this location"
  ELSE ""

registerPropertyChecks_SkipsArea(s, c) ==
  IF ~hasRole(s, NOTARY_ROLE, c.caller) THEN "role"
  ELSE IF s.paused THEN "paused"
  ELSE IF c.owner = ZERO THEN "Invalid owner address"
  ELSE IF c.location = "" THEN "Location cannot be empty"
  ELSE IF s.locationToPropertyId[c.location] # 0
       THEN "Property already exists at this location"
  ELSE ""

registerPropertyChecks(s, c) ==
  IF ~hasRole(s, NOTARY_ROLE, c.caller) THEN "role"
  ELSE IF s.paused THEN "paused"
  ELSE IF c.owner = ZERO THEN "Invalid owner address"
  ELSE IF c.location = "" THEN "Location cannot be empty"
  ELSE IF ~(c.deed.area > 0) THEN "Area must be greater than 0"
  ELSE IF s.locationToPropertyId[c.location] # 0
       THEN "Property already exists at this location"
  ELSE ""

\* The body of registerProperty after its checks; a failure inside (the
\* recipient rejecting the token) comes back with the storage as it was when
\* it happened.
registerPropertyEffects(s, c, t) ==
  LET propertyId == newPropertyId(s)
      s1 == [s EXCEPT !.counter = propertyId]
      m  == safeMint(s1, c.owner, propertyId, c.cb, t)
      u  == IF m.ok THEN setTokenURI(m.s, propertyId, c.deed.tokenURI) ELSE m
  IN  IF ~u.ok THEN u
      ELSE Done(Emit([u.s EXCEPT
             !.properties[propertyId] =
                [id |-> propertyId, location |-> c.location,
                 coordinates |-> c.deed.coordinates, area |-> c.deed.area,
                 value |-> c.deed.value,
                 propertyType |-> c.deed.propertyType, status |-> "ACTIVE",
                 registrationDate |-> t, lastTransferDate |-> t,
                 documentHash |-> c.deed.documentHash,
                 registrar |-> c.caller, verified |-> FALSE],
             !.locationToPropertyId[c.location] = propertyId,
             !.ownerProperties[c.owner] = Append(@, propertyId)],
             "PropertyRegistered", propertyId))

registerProperty_KeepsPartialState(s, c, t) ==
  IF registerPropertyChecks(s, c) # "" THEN Revert(s, registerPropertyChecks(s, c))
  ELSE registerPropertyEffects(s, c, t)

\* registerProperty: a failure anywhere reverts the whole call.
registerProperty(s, c, t) ==
  IF registerPropertyChecks(s, c) # "" THEN Revert(s, registerPropertyChecks(s, c))
  ELSE LET e == registerPropertyEffects(s, c, t)
       IN  IF e.ok THEN e ELSE Revert(s, e.err)

\* The modifiers and the require statements of transferProperty: the
\* message of the first that fails, or "".
transferPropertyChecks_AllowsFrozen(s, c) ==
  IF ~hasRole(s, NOTARY_ROLE, c.caller) THEN "role"
  ELSE IF s.paused THEN "paused"
  ELSE IF ~exists_(s, c.id) THEN "Property does not exist"
  ELSE IF c.newOwner = ZERO THEN "Invalid new owner address"
  ELSE IF s.properties[c.id].status = "DISPUTED" THEN "Property is not transferable"
  ELSE IF ownerOf(s, c.id) = c.newOwner THEN "Cannot transfer to same owner"
  ELSE ""

transferPropertyChecks(s, c) ==
  IF ~hasRole(s, NOTARY_ROLE, c.caller) THEN "role"
  ELSE IF s.paused THEN "paused"
  ELSE IF ~exists_(s, c.id) THEN "Property does not exist"
  ELSE IF c.newOwner = ZERO THEN "Invalid new owner address"
  ELSE IF s.properties[c.id].status # "ACTIVE" THEN "Property is not transferable"
  ELSE IF ownerOf(s, c.id) = c.newOwner THEN "Cannot transfer to same owner"
  ELSE ""

transferPropertyUpdate_KeepsDate(s, c, t) ==
  [s EXCEPT !.properties[c.id].value = c.value,
            !.properties[c.id].status = "TRANSFERRED"]

\* The struct update of transferProperty.
transferPropertyUpdate(s, c, t) ==
  [s EXCEPT !.properties[c.id].value = c.value,
            !.properties[c.id].lastTransferDate = t,
            !.properties[c.id].status = "TRANSFERRED"]

transferPropertyFinish_LeavesTransferred(s, c) ==
  Emit(s, "PropertyTransferred", c.id)

\* The end of transferProperty: the status goes back to ACTIVE.
transferPropertyFinish(s, c) ==
  Emit([s EXCEPT !.properties[c.id].status = "ACTIVE"], "PropertyTransferred", c.id)

transferProperty(s, c, t) ==
  IF transferPropertyChecks(s, c) # "" THEN Revert(s, transferPropertyChecks(s, c))
  ELSE
    LET currentOwner == ownerOf(s, c.id)
        s1 == transferPropertyUpdate(s, c, t)
        s2 == removePropertyFromOwner(s1, currentOwner, c.id)
        s3 == [s2 EXCEPT !.ownerProperties[c.newOwner] = Append(@, c.id)]
        x  == transfer_(s3, currentOwner, c.newOwner, c.id)
    IN  IF ~x.ok THEN Revert(s, x.err)
        ELSE Done(transferPropertyFinish(x.s, c))

verifyProperty_NotPausable(s, c, t) ==
  IF ~hasRole(s, SURVEYOR_ROLE, c.caller) THEN Revert(s, "role")
  ELSE IF ~exists_(s, c.id) THEN Revert(s, "Property does not exist")
  ELSE Done(Emit([s EXCEPT !.properties[c.id].verified = c.isVerified],
                 "PropertyVerified", c.id))

verifyProperty_Toggles(s, c, t) ==
  IF ~hasRole(s, SURVEYOR_ROLE, c.caller) THEN Revert(s, "role")
  ELSE IF s.paused THEN Revert(s, "paused")
  ELSE IF ~exists_(s, c.id) THEN Revert(s, "Property does not exist")
  ELSE Done(Emit([s EXCEPT !.properties[c.id].verified = ~@],
                 "PropertyVerified", c.id))

verifyProperty(s, c, t) ==
  IF ~hasRole(s, SURVEYOR_ROLE, c.caller) THEN Revert(s, "role")
  ELSE IF s.paused THEN Revert(s, "paused")
  ELSE IF ~exists_(s, c.id) THEN Revert(s, "Property does not exist")
  ELSE Done(Emit([s EXCEPT !.properties[c.id].verified = c.isVerified],
                 "PropertyVerified", c.id))

changePropertyStatus_ClearsVerified(s, c, t) ==
  IF ~hasRole(s, ADMIN_ROLE, c.caller) THEN Revert(s, "role")
  ELSE IF s.paused THEN Revert(s, "paused")
  ELSE IF ~exists_(s, c.id) THEN Revert(s, "Property does not exist")
  ELSE Done(Emit([s EXCEPT !.properties[c.id].status = c.newStatus,
                           !.properties[c.id].verified = FALSE],
                 "PropertyStatusChanged", c.id))

changePropertyStatus(s, c, t) ==
  IF ~hasRole(s, ADMIN_ROLE, c.caller) THEN Revert(s, "role")
  ELSE IF s.paused THEN Revert(s, "paused")
  ELSE IF ~exists_(s, c.id) THEN Revert(s, "Property does not exist")
  ELSE Done(Emit([s EXCEPT !.properties[c.id].status = c.newStatus],
                 "PropertyStatusChanged", c.id))

updatePropertyValue(s, c, t) ==
  IF ~hasRole(s, TAX_AUTHORITY_ROLE, c.caller) THEN Revert(s, "role")
  ELSE IF s.paused THEN Revert(s, "paused")
  ELSE IF ~exists_(s, c.id) THEN Revert(s, "Property does not exist")
  ELSE IF ~(c.value > 0) THEN Revert(s, "Value must be greater than 0")
  ELSE Done(Emit([s EXCEPT !.properties[c.id].value = c.value],
                 "PropertyValueUpdated", c.id))

pause(s, c, t) ==
  IF ~hasRole(s, ADMIN_ROLE, c.caller) THEN Revert(s, "role")
  ELSE IF s.paused THEN Revert(s, "paused")
  ELSE Done(Emit([s EXCEPT !.paused = TRUE], "Paused", 0))

unpause(s, c, t) ==
  IF ~hasRole(s, ADMIN_ROLE, c.caller) THEN Revert(s, "role")
  ELSE IF ~s.paused THEN Revert(s, "not paused")
  ELSE Done(Emit([s EXCEPT !.paused = FALSE], "Unpaused", 0))

\* ---------------------------------------------------------- read accessors
\* getProperty: the struct, or a revert for a token that does not exist.
getProperty(s, propertyId) ==
  IF ~exists_(s, propertyId)
  THEN [ok |-> FALSE, err |-> "Property does not exist", val |-> NoProperty]
  ELSE [ok |-> TRUE, err |-> "", val |-> s.properties[propertyId]]

\* getPropertyIdByLocation: the mapping's entry, 0 where nothing was written.
getPropertyIdByLocation(s, location) ==
  IF location \in Locations THEN s.locationToPropertyId[location] ELSE 0

\* getPropertiesByOwner: the list, empty where nothing was written.
getPropertiesByOwner(s, owner) ==
  IF owner \in Addr THEN s.ownerProperties[owner] ELSE <<>>

getTotalProperties(s) == s.counter

\* ----------------------------------- the public functions of the base contracts
\* ERC721.transferFrom
transferFrom(s, c, t) ==
  IF ~exists_(s, c.id) THEN Revert(s, "invalid token ID")
  ELSE IF ~isApprovedOrOwner(s, c.caller, c.id)
       THEN Revert(s, "caller is not token owner or approved")
  ELSE LET x == transfer_(s, c.from, c.to, c.id)
       IN  IF x.ok THEN x ELSE Revert(s, x.err)

\* ERC721.safeTransferFrom
safeTransferFrom(s, c, t) ==
  IF ~exists_(s, c.id) THEN Revert(s, "invalid token ID")
  ELSE IF ~isApprovedOrOwner(s, c.caller, c.id)
       THEN Revert(s, "caller is not token owner or approved")
  ELSE LET x == transfer_(s, c.from, c.to, c.id)
           r == IF x.ok THEN checkOnERC721Received(x.s, c.to, c.cb, t) ELSE x
       IN  IF r.ok THEN r ELSE Revert(s, r.err)

\* ERC721.approve
approve(s, c, t) ==
  IF ~exists_(s, c.id) THEN Revert(s, "invalid token ID")
  ELSE IF c.to = ownerOf(s, c.id) THEN Revert(s, "approval to current owner")
  ELSE IF ~(c.caller = ownerOf(s, c.id)
            \/ isApprovedForAll(s, ownerOf(s, c.id), c.caller))
       THEN Revert(s, "approve caller is not token owner or approved for all")
  ELSE Done(Emit([s EXCEPT !.tokenApprovals[c.id] = c.to], "Approval", c.id))

\* ERC721.setApprovalForAll
setApprovalForAll(s, c, t) ==
  IF c.caller = c.operator THEN Revert(s, "approve to caller")
  ELSE Done(Emit([s EXCEPT !.operatorApprovals =
                    IF c.approved THEN @ \cup {<<c.caller, c.operator>>}
                    ELSE @ \ {<<c.caller, c.operator>>}], "ApprovalForAll", 0))

\* AccessControl.grantRole: the admin role of every role is DEFAULT_ADMIN_ROLE.
grantRole(s, c, t) ==
  IF ~hasRole(s, DEFAULT_ADMIN_ROLE, c.caller) THEN Revert(s, "role")
  ELSE IF hasRole(s, c.role, c.account) THEN Done(s)
  ELSE Done(Emit([s EXCEPT !.roles[c.role] = @ \cup {c.account}], "RoleGranted", 0))

\* AccessControl.revokeRole
revokeRole(s, c, t) ==
  IF ~hasRole(s, DEFAULT_ADMIN_ROLE, c.caller) THEN Revert(s, "role")
  ELSE IF ~hasRole(s, c.role, c.account) THEN Done(s)
  ELSE Done(Emit([s EXCEPT !.roles[c.role] = @ \ {c.account}], "RoleRevoked", 0))

\* AccessControl.renounceRole
renounceRole(s, c, t) ==
  IF c.account # c.caller THEN Revert(s, "can only renounce roles for self")
  ELSE IF ~hasRole(s, c.role, c.account) THEN Done(s)
  ELSE Done(Emit([s EXCEPT !.roles[c.role] = @ \ {c.account}], "RoleRevoked", 0))

\* A call of a public function, by name.
Exec(s, c, t) ==
  CASE c.fn = "registerProperty"     -> registerProperty(s, c, t)
    [] c.fn = "transferProperty"     -> transferProperty(s, c, t)
    [] c.fn = "verifyProperty"       -> verifyProperty(s, c, t)
    [] c.fn = "changePropertyStatus" -> changePropertyStatus(s, c, t)
    [] c.fn = "updatePropertyValue"  -> updatePropertyValue(s, c, t)
    [] c.fn = "pause"                -> pause(s, c, t)
    [] c.fn = "unpause"              -> unpause(s, c, t)
    [] c.fn = "transferFrom"         -> transferFrom(s, c, t)
    [] c.fn = "safeTransferFrom"     -> safeTransferFrom(s, c, t)
    [] c.fn = "approve"              -> approve(s, c, t)
    [] c.fn = "setApprovalForAll"    -> setApprovalForAll(s, c, t)
    [] c.fn = "grantRole"            -> grantRole(s, c, t)
    [] c.fn = "revokeRole"           -> revokeRole(s, c, t)
    [] c.fn = "renounceRole"         -> renounceRole(s, c, t)

\* ------------------------------------------------------------------ calls
\* A callback that accepts the token and calls nothing.
Accept == [accept |-> TRUE, calls |-> <<>>]
\* A callback that rejects the token (reverts or returns another value).
Reject == [accept |-> FALSE, calls |-> <<>>]

AnyAddr == Addr \cup {ZERO}
AnyId   == 0 .. MaxProps

\* The callback matters only to a call that gets as far as the mint.
RegisterCalls(a, cbs) ==
  UNION { { [fn |-> "registerProperty", caller |-> a, owner |-> o,
             location |-> l, deed |-> d, cb |-> b]
            : b \in IF l # "" /\ d.area > 0 THEN cbs[o] ELSE {Accept} }
          : o \in AnyAddr, l \in Locations \cup {""}, d \in Deeds }

TransferPropertyCalls(a) ==
  { [fn |-> "transferProperty", caller |-> a, id |-> i, newOwner |-> o,
     value |-> v] : i \in AnyId, o \in AnyAddr, v \in Values }

VerifyCalls(a) ==
  { [fn |-> "verifyProperty", caller |-> a, id |-> i, isVerified |-> b]
    : i \in AnyId, b \in BOOLEAN }

StatusCalls(a) ==
  { [fn |-> "changePropertyStatus", caller |-> a, id |-> i, newStatus |-> st]
    : i \in AnyId, st \in PropertyStatus }

ValueCalls(a) ==
  { [fn |-> "updatePropertyValue", caller |-> a, id |-> i, value |-> v]
    : i \in AnyId, v \in Values }

PauseCalls(a)   == { [fn |-> "pause", caller |-> a] }
UnpauseCalls(a) == { [fn |-> "unpause", caller |-> a] }

TransferFromCalls(a) ==
  { [fn |-> "transferFrom", caller |-> a, from |-> f, to |-> o, id |-> i]
    : f \in Addr, o \in AnyAddr, i \in AnyId }

SafeTransferFromCalls(a, cbs) ==
  UNION { { [fn |-> "safeTransferFrom", caller |-> a, from |-> f, to |-> o,
             id |-> i, cb |-> b] : f \in Addr, i \in AnyId, b \in cbs[o] }
          : o \in AnyAddr }

ApproveCalls(a) ==
  { [fn |-> "approve", caller |-> a, to |-> o, id |-> i]
    : o \in AnyAddr, i \in AnyId }

ApprovalForAllCalls(a) ==
  { [fn |-> "setApprovalForAll", caller |-> a, operator |-> o, approved |-> b]
    : o \in Addr, b \in BOOLEAN }

GrantCalls(a) ==
  { [fn |-> "grantRole", caller |-> a, role |-> r, account |-> x]
    : r \in Roles, x \in Addr }
RevokeCalls(a) ==
  { [fn |-> "revokeRole", caller |-> a, role |-> r, account |-> x]
    : r \in Roles, x \in Addr }
RenounceCalls(a) ==
  { [fn |-> "renounceRole", caller |-> a, role |-> r, account |-> x]
    : r \in Roles, x \in Addr }

\* What onERC721Received of recipient o may answer, when it calls nothing.
Answers(o) == IF o \in Contracts THEN {Reject, Accept} ELSE {Accept}

\* The calls the recipient contract o may make back into the registry from
\* its callback: one call, with well-formed arguments.
NestedCalls(o) ==
  { c \in RegisterCalls(o, [x \in AnyAddr |-> Answers(x)]) :
      c.owner \in Addr /\ c.location # "" /\ c.deed.area > 0 /\ c.cb = Accept }
  \cup { c \in TransferPropertyCalls(o) :
           c.id \in Ids /\ c.newOwner \in Addr \ {o} /\ c.value = 0 }
  \cup { c \in TransferFromCalls(o) :
           c.from = o /\ c.to \in Addr \ {o} /\ c.id \in Ids }
  \cup { c \in StatusCalls(o) : c.id \in Ids /\ c.newStatus = "DISPUTED" }
  \cup PauseCalls(o)

\* What onERC721Received of recipient o may do during a mint.
Callbacks(o) ==
  Answers(o) \cup
  IF o \in Contracts
  THEN { [accept |-> TRUE, calls |-> <<n>>] : n \in NestedCalls(o) }
  ELSE {}

RECURSIVE Registrations(_)
\* The registerProperty calls in a call and in the callbacks it triggers.
Registrations(c) ==
  LET nested == IF c.fn \in {"registerProperty", "safeTransferFrom"}
                   /\ Len(c.cb.calls) > 0
                THEN Registrations(c.cb.calls[1]) ELSE 0
  IN  (IF c.fn = "registerProperty" THEN 1 ELSE 0) + nested

\* ----------------------------------------------------------- transactions
\* The constructor grants DEFAULT_ADMIN_ROLE and ADMIN_ROLE to the deployer.
RolesAfterConstructor ==
  [r \in Roles |-> IF r \in {DEFAULT_ADMIN_ROLE, ADMIN_ROLE} THEN {Deployer} ELSE {}]

\* The deployment script then grants the deployer the three other roles.
RolesAfterDeployment == [r \in Roles |-> {Deployer}]

\* The registry after its constructor (and, on a test network, after the
\* deployment script).
RegistryInit ==
  /\ propertyIdCounter = 0
  /\ owners = [i \in Ids |-> ZERO]
  /\ tokenApprovals = [i \in Ids |-> ZERO]
  /\ operatorApprovals = {}
  /\ tokenURIs = [i \in Ids |-> ""]
  /\ properties = [i \in Ids |-> NoProperty]
  /\ locationToPropertyId = [l \in Locations |-> 0]
  /\ ownerProperties = [a \in Addr |-> <<>>]
  /\ roles \in {RolesAfterConstructor, RolesAfterDeployment}
  /\ paused = FALSE
  /\ now = 1
  /\ last = <<>>
  /\ txCount = 0

\* The registry deployed, the web client just loaded in a browser with a
\* wallet that exposes no account.
Init ==
  /\ RegistryInit
  /\ AppIs(AfterMount(TRUE), TRUE, Null, CURRENT_NETWORK.chainId)
  /\ PagesMounted

\* The outcome of a transaction making the call c in a block of timestamp
\* now, when the call goes through and changes the storage.  (A call that
\* reverts, or that succeeds without changing anything, is a stuttering step.)
Outcome(c) ==
  IF txCount < MaxTx /\ propertyIdCounter + Registrations(c) <= MaxProps
  THEN { r \in {Exec(State, c, now)} : r.ok /\ Storage(r.s) # State }
  ELSE {}

\* A later block is mined: block.timestamp grows.
Mine ==
  /\ txCount < MaxTx
  /\ now < MaxTime
  /\ now' = now + 1
  /\ txCount' = txCount + 1
  /\ UNCHANGED <<cvars, last, uivars>>

\* Every call of every public function, by any caller.
AllRegisterCalls         == UNION { RegisterCalls(a, [x \in AnyAddr |-> Callbacks(x)]) : a \in Addr }
AllTransferPropertyCalls == UNION { TransferPropertyCalls(a) : a \in Addr }
AllVerifyCalls           == UNION { VerifyCalls(a) : a \in Addr }
AllStatusCalls           == UNION { StatusCalls(a) : a \in Addr }
AllValueCalls            == UNION { ValueCalls(a) : a \in Addr }
AllPauseCalls            == UNION { PauseCalls(a) : a \in Addr }
AllUnpauseCalls          == UNION { UnpauseCalls(a) : a \in Addr }
AllTransferFromCalls     == UNION { TransferFromCalls(a) : a \in Addr }
AllSafeTransferFromCalls == UNION { SafeTransferFromCalls(a, [x \in AnyAddr |-> Answers(x)]) : a \in Addr }
AllApproveCalls          == UNION { ApproveCalls(a) : a \in Addr }
AllApprovalForAllCalls   == UNION { ApprovalForAllCalls(a) : a \in Addr }
AllGrantCalls            == UNION { GrantCalls(a) : a \in Addr }
AllRevokeCalls           == UNION { RevokeCalls(a) : a \in Addr }
AllRenounceCalls         == UNION { RenounceCalls(a) : a \in Addr }

RegisterProperty ==
  \E c \in AllRegisterCalls : \E r \in Outcome(c) :
    /\ propertyIdCounter' = r.s.counter
    /\ owners' = r.s.owners
    /\ tokenApprovals' = r.s.tokenApprovals
    /\ operatorApprovals' = r.s.operatorApprovals
    /\ tokenURIs' = r.s.tokenURIs
    /\ properties' = r.s.properties
    /\ locationToPropertyId' = r.s.locationToPropertyId
    /\ ownerProperties' = r.s.ownerProperties
    /\ roles' = r.s.roles
    /\ paused' = r.s.paused
    /\ last' = r.s.events
    /\ txCount' = txCount + 1
    /\ UNCHANGED <<now, uivars>>

TransferProperty ==
  \E c \in AllTransferPropertyCalls : \E r \in Outcome(c) :
    /\ propertyIdCounter' = r.s.counter
    /\ owners' = r.s.owners
    /\ tokenApprovals' = r.s.tokenApprovals
    /\ operatorApprovals' = r.s.operatorApprovals
    /\ tokenURIs' = r.s.tokenURIs
    /\ properties' = r.s.properties
    /\ locationToPropertyId' = r.s.locationToPropertyId
    /\ ownerProperties' = r.s.ownerProperties
    /\ roles' = r.s.roles
    /\ paused' = r.s.paused
    /\ last' = r.s.events
    /\ txCount' = txCount + 1
    /\ UNCHANGED <<now, uivars>>

VerifyProperty ==
  \E c \in AllVerifyCalls : \E r \in Outcome(c) :
    /\ propertyIdCounter' = r.s.counter
    /\ owners' = r.s.owners
    /\ tokenApprovals' = r.s.tokenApprovals
    /\ operatorApprovals' = r.s.operatorApprovals
    /\ tokenURIs' = r.s.tokenURIs
    /\ properties' = r.s.properties
    /\ locationToPropertyId' = r.s.locationToPropertyId
    /\ ownerProperties' = r.s.ownerProperties
    /\ roles' = r.s.roles
    /\ paused' = r.s.paused
    /\ last' = r.s.events
    /\ txCount' = txCount + 1
    /\ UNCHANGED <<now, uivars>>

ChangePropertyStatus ==
  \E c \in AllStatusCalls : \E r \in Outcome(c) :
    /\ propertyIdCounter' = r.s.counter
    /\ owners' = r.s.owners
    /\ tokenApprovals' = r.s.tokenApprovals
    /\ operatorApprovals' = r.s.operatorApprovals
    /\ tokenURIs' = r.s.tokenURIs
    /\ properties' = r.s.properties
    /\ locationToPropertyId' = r.s.locationToPropertyId
    /\ ownerProperties' = r.s.ownerProperties
    /\ roles' = r.s.roles
    /\ paused' = r.s.paused
    /\ last' = r.s.events
    /\ txCount' = txCount + 1
    /\ UNCHANGED <<now, uivars>>

UpdatePropertyValue ==
  \E c \in AllValueCalls : \E r \in Outcome(c) :
    /\ propertyIdCounter' = r.s.counter
    /\ owners' = r.s.owners
    /\ tokenApprovals' = r.s.tokenApprovals
    /\ operatorApprovals' = r.s.operatorApprovals
    /\ tokenURIs' = r.s.tokenURIs
    /\ properties' = r.s.properties
    /\ locationToPropertyId' = r.s.locationToPropertyId
    /\ ownerProperties' = r.s.ownerProperties
    /\ roles' = r.s.roles
    /\ paused' = r.s.paused
    /\ last' = r.s.events
    /\ txCount' = txCount + 1
    /\ UNCHANGED <<now, uivars>>

Pause ==
  \E c \in AllPauseCalls : \E r \in Outcome(c) :
    /\ propertyIdCounter' = r.s.counter
    /\ owners' = r.s.owners
    /\ tokenApprovals' = r.s.tokenApprovals
    /\ operatorApprovals' = r.s.operatorApprovals
    /\ tokenURIs' = r.s.tokenURIs
    /\ properties' = r.s.properties
    /\ locationToPropertyId' = r.s.locationToPropertyId
    /\ ownerProperties' = r.s.ownerProperties
    /\ roles' = r.s.roles
    /\ paused' = r.s.paused
    /\ last' = r.s.events
    /\ txCount' = txCount + 1
    /\ UNCHANGED <<now, uivars>>

Unpause ==
  \E c \in AllUnpauseCalls : \E r \in Outcome(c) :
    /\ propertyIdCounter' = r.s.counter
    /\ owners' = r.s.owners
    /\ tokenApprovals' = r.s.tokenApprovals
    /\ operatorApprovals' = r.s.operatorApprovals
    /\ tokenURIs' = r.s.tokenURIs
    /\ properties' = r.s.properties
    /\ locationToPropertyId' = r.s.locationToPropertyId
    /\ ownerProperties' = r.s.ownerProperties
    /\ roles' = r.s.roles
    /\ paused' = r.s.paused
    /\ last' = r.s.events
    /\ txCount' = txCount + 1
    /\ UNCHANGED <<now, uivars>>

TransferFrom ==
  \E c \in AllTransferFromCalls : \E r \in Outcome(c) :
    /\ propertyIdCounter' = r.s.counter
    /\ owners' = r.s.owners
    /\ tokenApprovals' = r.s.tokenApprovals
    /\ operatorApprovals' = r.s.operatorApprovals
    /\ tokenURIs' = r.s.tokenURIs
    /\ properties' = r.s.properties
    /\ locationToPropertyId' = r.s.locationToPropertyId
    /\ ownerProperties' = r.s.ownerProperties
    /\ roles' = r.s.roles
    /\ paused' = r.s.paused
    /\ last' = r.s.events
    /\ txCount' = txCount + 1
    /\ UNCHANGED <<now, uivars>>

SafeTransferFrom ==
  \E c \in AllSafeTransferFromCalls : \E r \in Outcome(c) :
    /\ propertyIdCounter' = r.s.counter
    /\ owners' = r.s.owners
    /\ tokenApprovals' = r.s.tokenApprovals
    /\ operatorApprovals' = r.s.operatorApprovals
    /\ tokenURIs' = r.s.tokenURIs
    /\ properties' = r.s.properties
    /\ locationToPropertyId' = r.s.locationToPropertyId
    /\ ownerProperties' = r.s.ownerProperties
    /\ roles' = r.s.roles
    /\ paused' = r.s.paused
    /\ last' = r.s.events
    /\ txCount' = txCount + 1
    /\ UNCHANGED <<now, uivars>>

Approve ==
  \E c \in AllApproveCalls : \E r \in Outcome(c) :
    /\ propertyIdCounter' = r.s.counter
    /\ owners' = r.s.owners
    /\ tokenApprovals' = r.s.tokenApprovals
    /\ operatorApprovals' = r.s.operatorApprovals
    /\ tokenURIs' = r.s.tokenURIs
    /\ properties' = r.s.properties
    /\ locationToPropertyId' = r.s.locationToPropertyId
    /\ ownerProperties' = r.s.ownerProperties
    /\ roles' = r.s.roles
    /\ paused' = r.s.paused
    /\ last' = r.s.events
    /\ txCount' = txCount + 1
    /\ UNCHANGED <<now, uivars>>

SetApprovalForAll ==
  \E c \in AllApprovalForAllCalls : \E r \in Outcome(c) :
    /\ propertyIdCounter' = r.s.counter
    /\ owners' = r.s.owners
    /\ tokenApprovals' = r.s.tokenApprovals
    /\ operatorApprovals' = r.s.operatorApprovals
    /\ tokenURIs' = r.s.tokenURIs
    /\ properties' = r.s.properties
    /\ locationToPropertyId' = r.s.locationToPropertyId
    /\ ownerProperties' = r.s.ownerProperties
    /\ roles' = r.s.roles
    /\ paused' = r.s.paused
    /\ last' = r.s.events
    /\ txCount' = txCount + 1
    /\ UNCHANGED <<now, uivars>>

GrantRole ==
  \E c \in AllGrantCalls : \E r \in Outcome(c) :
    /\ propertyIdCounter' = r.s.counter
    /\ owners' = r.s.owners
    /\ tokenApprovals' = r.s.tokenApprovals
    /\ operatorApprovals' = r.s.operatorApprovals
    /\ tokenURIs' = r.s.tokenURIs
    /\ properties' = r.s.properties
    /\ locationToPropertyId' = r.s.locationToPropertyId
    /\ ownerProperties' = r.s.ownerProperties
    /\ roles' = r.s.roles
    /\ paused' = r.s.paused
    /\ last' = r.s.events
    /\ txCount' = txCount + 1
    /\ UNCHANGED <<now, uivars>>

RevokeRole ==
  \E c \in AllRevokeCalls : \E r \in Outcome(c) :
    /\ propertyIdCounter' = r.s.counter
    /\ owners' = r.s.owners
    /\ tokenApprovals' = r.s.tokenApprovals
    /\ operatorApprovals' = r.s.operatorApprovals
    /\ tokenURIs' = r.s.tokenURIs
    /\ properties' = r.s.properties
    /\ locationToPropertyId' = r.s.locationToPropertyId
    /\ ownerProperties' = r.s.ownerProperties
    /\ roles' = r.s.roles
    /\ paused' = r.s.paused
    /\ last' = r.s.events
    /\ txCount' = txCount + 1
    /\ UNCHANGED <<now, uivars>>

RenounceRole ==
  \E c \in AllRenounceCalls : \E r \in Outcome(c) :
    /\ propertyIdCounter' = r.s.counter
    /\ owners' = r.s.owners
    /\ tokenApprovals' = r.s.tokenApprovals
    /\ operatorApprovals' = r.s.operatorApprovals
    /\ tokenURIs' = r.s.tokenURIs
    /\ properties' = r.s.properties
    /\ locationToPropertyId' = r.s.locationToPropertyId
    /\ ownerProperties' = r.s.ownerProperties
    /\ roles' = r.s.roles
    /\ paused' = r.s.paused
    /\ last' = r.s.events
    /\ txCount' = txCount + 1
    /\ UNCHANGED <<now, uivars>>

Next ==
  \/ RegisterProperty
  \/ TransferProperty
  \/ VerifyProperty
  \/ ChangePropertyStatus
  \/ UpdatePropertyValue
  \/ Pause
  \/ Unpause
  \/ TransferFrom
  \/ SafeTransferFrom
  \/ Approve
  \/ SetApprovalForAll
  \/ GrantRole
  \/ RevokeRole
  \/ RenounceRole
  \/ Mine

Spec == Init /\ [][Next]_vars

\* ========================================================= the web client
\* The state of the providers and of localStorage as one value.
App ==
  [account |-> account, provider |-> provider, signer |-> signer,
   chainId |-> chainId, isConnecting |-> isConnecting, contract |-> contract,
   user |-> user, isLoading |-> isLoading,
   intervalAccount |-> intervalAccount, authToken |-> authToken,
   pending |-> pending, needsReload |-> needsReload, notes |-> <<>>]

\* toast.error / toast.success / ..., console.error, or an error thrown to
\* the caller: the kind, and the function it comes from.
Note(a, kind, fn) == [a EXCEPT !.notes = Append(@, [k |-> kind, f |-> fn])]

\* The call x starts waiting / has been resumed.
Await(a, x)  == [a EXCEPT !.pending = @ (+) SetToBag({x})]
Resume(a, x) == [a EXCEPT !.pending = @ (-) SetToBag({x})]

\* AuthProvider.isAuthenticated
isAuthenticated(a) == a.user # NoUser /\ a.account # Null

\* AuthProvider.logout
logout(a) == [a EXCEPT !.user = NoUser, !.authToken = Null]

\* The start of AuthProvider.refreshUser, up to its await.
refreshUserStart(a, acct) ==
  IF acct = Null THEN a
  ELSE Await(a, Call("refreshUser", "getUserByWallet", acct, Null, NoUser))

\* AuthProvider's effect on [isConnected, account], run after a render in
\* which the account differs from the previous render's.
accountEffect(old, new) ==
  IF new.account = old.account THEN new
  ELSE IF new.account = Null THEN logout(new)
  ELSE IF new.authToken # Null /\ new.user = NoUser
       THEN refreshUserStart(new, new.account)
  ELSE new

\* AuthProvider's effect on [isAuthenticated]: the interval is cleared when
\* isAuthenticated changes and set again when it has become true, with the
\* refreshUser of that render, which reads that render's account.
intervalEffect(old, new) ==
  IF isAuthenticated(new) = isAuthenticated(old) THEN new
  ELSE [new EXCEPT !.intervalAccount =
          IF isAuthenticated(new) THEN new.account ELSE Null]

\* React renders the state a handler has left and runs the effects.
Render(old, new) == intervalEffect(old, accountEffect(old, new))

\* ------------------------------------------------------------ Web3Provider
\* initializeContract (CONTRACT_ADDRESS is configured)
initializeContract(a, signerOrProvider) ==
  [a EXCEPT !.contract = signerOrProvider]

\* The catch and the finally of connectWallet.
connectWalletCatch(a) ==
  [Note(Note(a, "console.error", "connectWallet"),
        "toast.error", "connectWallet") EXCEPT !.isConnecting = FALSE]

\* connectWallet, up to its first await.
connectWalletStart(a, e) ==
  IF ~e THEN Note(a, "toast.error", "connectWallet")
  ELSE Await([a EXCEPT !.isConnecting = TRUE],
             Call("connectWallet", "eth_requestAccounts", Null, Null, NoUser))

\* connectWallet resumed with the answer of eth_requestAccounts: a rejection,
\* or a list of accounts.
connectWalletAccounts(a, rejected, accounts) ==
  IF rejected \/ Len(accounts) = 0 THEN connectWalletCatch(a)
  ELSE Await(a, Call("connectWallet", "getSigner", accounts[1], Null, NoUser))

\* connectWallet resumed with the answer of getSigner(): a signer for the
\* account the wallet exposes at that moment, or a rejection when it exposes
\* none.
connectWalletSigner(a, x, w) ==
  IF w = Null THEN connectWalletCatch(a)
  ELSE Await(a, Call("connectWallet", "getNetwork", x.acct, w, NoUser))

\* The end of connectWallet: the contract, the toast, the finally.
connectWalletFinish(a, x) ==
  [Note(initializeContract(a, x.sgn), "toast.success", "connectWallet")
     EXCEPT !.isConnecting = FALSE]

\* connectWallet resumed with the answer of getNetwork(): the four setters,
\* then the check of the network.
connectWalletNetwork(a, x, network) ==
  LET a1 == [a EXCEPT !.provider = TRUE, !.signer = x.sgn,
                      !.account = x.acct, !.chainId = network]
  IN  IF network # CURRENT_NETWORK.chainId
      THEN Await(a1, Call("connectWallet", "switchToCorrectNetwork",
                          x.acct, x.sgn, NoUser))
      ELSE connectWalletFinish(a1, x)

\* handleChainChanged
handleChainChanged(a, newChainId) ==
  Note([a EXCEPT !.chainId = newChainId],
       IF newChainId # CURRENT_NETWORK.chainId THEN "toast.warning"
       ELSE "toast.success", "handleChainChanged")

\* connectWallet resumed with the result of switchToCorrectNetwork.
connectWalletSwitched(a, x, switched) ==
  IF ~switched
  THEN [Note(a, "toast.warning", "connectWallet") EXCEPT !.isConnecting = FALSE]
  ELSE connectWalletFinish(a, x)

\* disconnectWallet
disconnectWallet(a) ==
  Note([a EXCEPT !.account = Null, !.provider = FALSE, !.signer = Null,
                 !.chainId = NoChainId, !.contract = Null],
       "toast.info", "disconnectWallet")

\* What the listeners registered by the mount effect see of the provider's
\* state: the values of the first render, whatever the state has become.
MountClosure == [account |-> Null, provider |-> FALSE, signer |-> Null]

\* handleAccountsChanged
handleAccountsChanged(a, accounts, e) ==
  IF Len(accounts) = 0 THEN disconnectWallet(a)
  ELSE IF accounts[1] # MountClosure.account
       THEN LET a1 == [a EXCEPT !.account = accounts[1]]
            IN  IF MountClosure.provider /\ MountClosure.signer # Null
                THEN connectWalletStart(a1, e)
                ELSE a1
  ELSE a

\* tryAutoConnect resumed with the answer of eth_accounts.
tryAutoConnect(a, rejected, accounts, e) ==
  IF rejected THEN Note(a, "console.log", "tryAutoConnect")
  ELSE IF Len(accounts) > 0 THEN connectWalletStart(a, e)
  ELSE a

\* --------------------------------------------------------------- apiService
\* What the backend answers to a request: the HTTP status, whether the body
\* of an error carries a detail field, and, for the authenticate endpoint,
\* the success flag and whether a token comes with it.
Responses ==
  { [status |-> 200, detail |-> FALSE, success |-> s, token |-> k]
      : s \in BOOLEAN, k \in BOOLEAN }
    \cup { [status |-> st, detail |-> d, success |-> FALSE, token |-> FALSE]
             : st \in {401, 404, 500}, d \in BOOLEAN }

IsError(resp) == resp.status # 200

\* The response interceptor of the axios client.
responseInterceptor(a, resp) ==
  IF resp.status = 401
  THEN [a EXCEPT !.authToken = Null, !.needsReload = TRUE]
  ELSE a

\* handleResponse: the data, or the error logged and thrown again with the
\* detail of the body or else axios's message, which names the status.
handleResponse(a, resp) ==
  IF IsError(resp) THEN Note(responseInterceptor(a, resp), "console.error", "handleResponse")
  ELSE a

\* error.message.includes('404') in getUserByWallet: axios's own message
\* holds the status code, the detail of the backend's body takes its place
\* when there is one.
MessageIncludes404(resp) == resp.status = 404 /\ ~resp.detail

\* getUserByWallet: the user, null for a 404 recognised as such, or the error.
getUserByWallet(resp, walletAddress) ==
  IF ~IsError(resp) THEN [threw |-> FALSE, data |-> UserOf(walletAddress)]
  ELSE IF MessageIncludes404(resp) THEN [threw |-> FALSE, data |-> NoUser]
  ELSE [threw |-> TRUE, data |-> NoUser]

\* ------------------------------------------------------------ AuthProvider
\* HomePage.handleQuickLogin after login() has rejected / resolved.
quickLoginCatch(a) == Note(a, "toast.error", "handleQuickLogin")
quickLoginDone(a)  == Note(a, "toast.success", "handleQuickLogin")

\* The catch and the finally of login, then its caller's catch.
loginCatch(a) ==
  quickLoginCatch(Note([Note(a, "console.error", "login")
                          EXCEPT !.isLoading = FALSE], "throw", "login"))

\* login, up to its first await; it throws when no wallet is connected.
loginStart(a) ==
  IF a.account = Null \/ a.signer = Null
  THEN quickLoginCatch(Note(a, "throw", "login"))
  ELSE Await([a EXCEPT !.isLoading = TRUE],
             Call("login", "getUserByWallet", a.account, a.signer, NoUser))

\* HomePage.handleQuickLogin
handleQuickLogin(a) ==
  IF a.account = Null THEN Note(a, "toast.warning", "handleQuickLogin")
  ELSE loginStart(a)

\* login resumed with the answer of getUserByWallet.
loginGotUser(a, x, resp) ==
  LET a1 == handleResponse(a, resp)
      u  == getUserByWallet(resp, x.acct)
  IN  IF u.threw THEN loginCatch(a1)
      ELSE IF u.data = NoUser
           THEN Await(a1, Call("login", "createUser", x.acct, x.sgn, NoUser))
      ELSE Await(a1, Call("login", "signMessage", x.acct, x.sgn, u.data))

\* login resumed with the answer of createUser.
loginCreatedUser(a, x, resp) ==
  LET a1 == handleResponse(a, resp)
  IN  IF IsError(resp) THEN loginCatch(a1)
      ELSE Await(a1, Call("login", "signMessage", x.acct, x.sgn, UserOf(x.acct)))

\* login resumed with the signature, or with the wallet's refusal to sign.
loginSigned(a, x, rejected) ==
  IF rejected THEN loginCatch(a)
  ELSE Await(a, Call("login", "authenticateUser", x.acct, x.sgn, x.usr))

\* login resumed with the answer of authenticateUser (a variant that stores
\* the token before it looks at the success flag, and the function itself).
loginAuthenticated_TokenBeforeCheck(a, x, resp) ==
  LET a1 == handleResponse(a, resp)
      a2 == IF resp.token THEN [a1 EXCEPT !.authToken = Token] ELSE a1
  IN  IF IsError(resp) THEN loginCatch(a1)
      ELSE IF resp.success
           THEN quickLoginDone([a2 EXCEPT !.user = x.usr, !.isLoading = FALSE])
      ELSE loginCatch(a2)

loginAuthenticated(a, x, resp) ==
  LET a1 == handleResponse(a, resp)
  IN  IF IsError(resp) THEN loginCatch(a1)
      ELSE IF resp.success
           THEN quickLoginDone(
                  [a1 EXCEPT !.user = x.usr,
                             !.authToken = IF resp.token THEN Token ELSE @,
                             !.isLoading = FALSE])
      ELSE loginCatch(a1)

\* updateProfile, up to its await; it throws when there is no user.
updateProfileStart(a) ==
  IF a.user = NoUser THEN Note(a, "throw", "updateProfile")
  ELSE Await(a, Call("updateProfile", "updateUser", Null, Null, a.user))

\* updateProfile resumed with the answer of updateUser.
updateProfileDone(a, x, resp) ==
  LET a1 == handleResponse(a, resp)
  IN  IF IsError(resp)
      THEN Note(Note(a1, "console.error", "updateProfile"), "throw", "updateProfile")
      ELSE [a1 EXCEPT !.user = x.usr]

\* refreshUser resumed with the answer of getUserByWallet.
refreshUserDone(a, x, resp) ==
  LET a1 == handleResponse(a, resp)
      u  == getUserByWallet(resp, x.acct)
  IN  IF u.threw THEN Note(a1, "console.error", "refreshUser")
      ELSE IF u.data # NoUser THEN [a1 EXCEPT !.user = u.data]
      ELSE a1

\* ------------------------------------------------- the steps of the client
\* The state a step leaves, after React has rendered it and run the effects.
Commit(a) ==
  \E r \in {Render(App, a)} :
    /\ account' = r.account /\ provider' = r.provider /\ signer' = r.signer
    /\ chainId' = r.chainId /\ isConnecting' = r.isConnecting
    /\ contract' = r.contract /\ user' = r.user /\ isLoading' = r.isLoading
    /\ intervalAccount' = r.intervalAccount /\ authToken' = r.authToken
    /\ pending' = r.pending /\ needsReload' = r.needsReload
    /\ notes' = r.notes
    /\ uiSteps' = uiSteps + 1
    /\ UNCHANGED <<ethereum, rvars, pagevars>>

\* A step can be taken: the page is not being reloaded.
CanStep == uiSteps < MaxUiSteps /\ ~needsReload
\* A further async call can be started.
CanCall == BagCardinality(pending) < MaxPending

\* The calls of fn waiting at pc.
Waiting(fn, pc) == { x \in BagToSet(pending) : x.fn = fn /\ x.pc = pc }

\* The answers to a request that carries no success flag.
PlainResponses == { resp \in Responses : resp.success = ~IsError(resp) /\ ~resp.token }

\* WalletConnectButton: the connect button, shown while no account is
\* connected and enabled while isConnecting is false.
ConnectWallet ==
  /\ CanStep /\ CanCall
  /\ account = Null /\ ~isConnecting
  /\ Commit(connectWalletStart(App, ethereum))
  /\ UNCHANGED <<walletAccount, walletChain>>

\* eth_requestAccounts settles: the user refuses, or the wallet answers with
\* the account it exposes, which the user may just have approved; the wallet
\* then emits accountsChanged.  A wallet may also answer with no account.
RequestAccountsSettles ==
  /\ CanStep
  /\ \E x \in Waiting("connectWallet", "eth_requestAccounts") :
       \/ /\ Commit(connectWalletAccounts(Resume(App, x), TRUE, <<>>))
          /\ UNCHANGED <<walletAccount, walletChain>>
       \/ /\ walletAccount = Null
          /\ Commit(connectWalletAccounts(Resume(App, x), FALSE, <<>>))
          /\ UNCHANGED <<walletAccount, walletChain>>
       \/ /\ walletAccount # Null
          /\ Commit(connectWalletAccounts(Resume(App, x), FALSE, <<walletAccount>>))
          /\ UNCHANGED <<walletAccount, walletChain>>
       \/ /\ walletAccount = Null
          /\ \E w \in Accounts :
               /\ walletAccount' = w
               /\ Commit(connectWalletAccounts(
                           handleAccountsChanged(Resume(App, x), <<w>>, ethereum),
                           FALSE, <<w>>))
          /\ UNCHANGED walletChain

\* getSigner() settles.
GetSignerSettles ==
  /\ CanStep
  /\ \E x \in Waiting("connectWallet", "getSigner") :
       Commit(connectWalletSigner(Resume(App, x), x, walletAccount))
  /\ UNCHANGED <<walletAccount, walletChain>>

\* getNetwork() settles.
GetNetworkSettles ==
  /\ CanStep
  /\ \E x \in Waiting("connectWallet", "getNetwork") :
       Commit(connectWalletNetwork(Resume(App, x), x, walletChain))
  /\ UNCHANGED <<walletAccount, walletChain>>

\* switchToCorrectNetwork settles.  wallet_switchEthereumChain succeeds and
\* the wallet emits chainChanged; or it fails with 4902 and
\* wallet_addEthereumChain succeeds, with or without the wallet moving to the
\* chain; or the user refuses.
SwitchSettles ==
  /\ CanStep
  /\ \E x \in Waiting("connectWallet", "switchToCorrectNetwork") :
       \/ /\ walletChain' = CURRENT_NETWORK.chainId
          /\ Commit(connectWalletSwitched(
                      handleChainChanged(Resume(App, x), CURRENT_NETWORK.chainId),
                      x, TRUE))
       \/ /\ UNCHANGED walletChain
          /\ \E switched \in BOOLEAN :
               Commit(connectWalletSwitched(Resume(App, x), x, switched))
  /\ UNCHANGED walletAccount

\* WalletConnectButton: the account button, shown while an account is
\* connected.
DisconnectWallet ==
  /\ CanStep
  /\ account # Null
  /\ Commit(disconnectWallet(App))
  /\ UNCHANGED <<walletAccount, walletChain>>

\* The user selects another account in the wallet, or locks it: the wallet
\* emits accountsChanged.
AccountsChanged ==
  /\ CanStep /\ ethereum
  /\ \E w \in (Accounts \cup {Null}) \ {walletAccount} :
       /\ walletAccount' = w
       /\ Commit(handleAccountsChanged(App, IF w = Null THEN <<>> ELSE <<w>>,
                                       ethereum))
  /\ UNCHANGED walletChain

\* The user selects another chain in the wallet: it emits chainChanged.
ChainChanged ==
  /\ CanStep /\ ethereum
  /\ \E c \in Chains \ {walletChain} :
       /\ walletChain' = c
       /\ Commit(handleChainChanged(App, c))
  /\ UNCHANGED walletAccount

\* The wallet loses its connection to the chain: it emits disconnect.
WalletDisconnect ==
  /\ CanStep /\ ethereum
  /\ Commit(disconnectWallet(App))
  /\ UNCHANGED <<walletAccount, walletChain>>

\* eth_accounts settles for tryAutoConnect.
AutoConnectSettles ==
  /\ CanStep
  /\ \E x \in Waiting("tryAutoConnect", "eth_accounts") :
       \/ Commit(tryAutoConnect(Resume(App, x), TRUE, <<>>, ethereum))
       \/ Commit(tryAutoConnect(Resume(App, x), FALSE,
                   IF walletAccount = Null THEN <<>> ELSE <<walletAccount>>,
                   ethereum))
  /\ UNCHANGED <<walletAccount, walletChain>>

\* HomePage: the login button, shown while a wallet is connected and the
\* user is not authenticated.
QuickLogin ==
  /\ CanStep /\ CanCall
  /\ account # Null /\ ~isAuthenticated(App)
  /\ Commit(handleQuickLogin(App))
  /\ UNCHANGED <<walletAccount, walletChain>>

LoginUserSettles ==
  /\ CanStep
  /\ \E x \in Waiting("login", "getUserByWallet") : \E resp \in PlainResponses :
       Commit(loginGotUser(Resume(App, x), x, resp))
  /\ UNCHANGED <<walletAccount, walletChain>>

LoginCreateSettles ==
  /\ CanStep
  /\ \E x \in Waiting("login", "createUser") : \E resp \in PlainResponses :
       Commit(loginCreatedUser(Resume(App, x), x, resp))
  /\ UNCHANGED <<walletAccount, walletChain>>

\* signMessage settles: the signature, or the user's refusal.
LoginSignSettles ==
  /\ CanStep
  /\ \E x \in Waiting("login", "signMessage") : \E rejected \in BOOLEAN :
       Commit(loginSigned(Resume(App, x), x, rejected))
  /\ UNCHANGED <<walletAccount, walletChain>>

\* authenticateUser settles; the backend accepts only a signature made by
\* the account the message names.
LoginAuthSettles ==
  /\ CanStep
  /\ \E x \in Waiting("login", "authenticateUser") : \E resp \in Responses :
       /\ resp.success => x.sgn = x.acct
       /\ Commit(loginAuthenticated(Resume(App, x), x, resp))
  /\ UNCHANGED <<walletAccount, walletChain>>

\* A consumer of the context calls updateProfile.
UpdateProfile ==
  /\ CanStep /\ CanCall
  /\ Commit(updateProfileStart(App))
  /\ UNCHANGED <<walletAccount, walletChain>>

UpdateProfileSettles ==
  /\ CanStep
  /\ \E x \in Waiting("updateProfile", "updateUser") : \E resp \in PlainResponses :
       Commit(updateProfileDone(Resume(App, x), x, resp))
  /\ UNCHANGED <<walletAccount, walletChain>>

\* The five-minute interval fires.
PeriodicRefresh ==
  /\ CanStep /\ CanCall
  /\ intervalAccount # Null
  /\ Commit(refreshUserStart(App, intervalAccount))
  /\ UNCHANGED <<walletAccount, walletChain>>

RefreshSettles ==
  /\ CanStep
  /\ \E x \in Waiting("refreshUser", "getUserByWallet") : \E resp \in PlainResponses :
       Commit(refreshUserDone(Resume(App, x), x, resp))
  /\ UNCHANGED <<walletAccount, walletChain>>

\* A consumer of the context calls logout.
Logout ==
  /\ CanStep
  /\ user # NoUser
  /\ Commit(logout(App))
  /\ UNCHANGED <<walletAccount, walletChain>>

\* The navigation started by the response interceptor: the page loads anew,
\* the calls in flight are gone and the components are mounted again.
PageReload ==
  /\ uiSteps < MaxUiSteps /\ needsReload
  /\ \E m \in {AfterMount(ethereum)} :
       /\ account' = m.account /\ provider' = m.provider /\ signer' = m.signer
       /\ chainId' = m.chainId /\ isConnecting' = m.isConnecting
       /\ contract' = m.contract /\ user' = m.user /\ isLoading' = m.isLoading
       /\ intervalAccount' = m.intervalAccount /\ authToken' = m.authToken
       /\ pending' = m.pending /\ needsReload' = m.needsReload
       /\ notes' = m.notes
  /\ uiSteps' = uiSteps + 1
  /\ currentStep' = 1 /\ isSubmitting' = FALSE /\ isValid' = FALSE
  /\ submissions' = 0
  /\ stats' = FALSE /\ loading' = TRUE /\ error' = FALSE /\ loads' = 1
  /\ query' = "" /\ filters' = FALSE /\ page' = 0 /\ totalCount' = 0
  /\ searchProperties' = <<>> /\ searchLoading' = FALSE
  /\ debounced' = SearchArgs("", FALSE, 0) /\ searches' = EmptyBag
  /\ pageNotes' = <<>> /\ pageSteps' = pageSteps
  /\ UNCHANGED <<ethereum, walletAccount, walletChain, rvars>>

\* The client just loaded, with or without a wallet extension, the wallet
\* exposing an account from an earlier visit or none.
AppInit ==
  /\ RegistryInit /\ roles = RolesAfterConstructor
  /\ \E e \in BOOLEAN, w \in Accounts \cup {Null}, c \in Chains :
       /\ (~e => w = Null /\ c = CURRENT_NETWORK.chainId)
       /\ AppIs(AfterMount(e), e, w, c)
  /\ PagesMounted

AppNext ==
  \/ ConnectWallet
  \/ RequestAccountsSettles
  \/ GetSignerSettles
  \/ GetNetworkSettles
  \/ SwitchSettles
  \/ DisconnectWallet
  \/ AccountsChanged
  \/ ChainChanged
  \/ WalletDisconnect
  \/ AutoConnectSettles
  \/ QuickLogin
  \/ LoginUserSettles
  \/ LoginCreateSettles
  \/ LoginSignSettles
  \/ LoginAuthSettles
  \/ UpdateProfile
  \/ UpdateProfileSettles
  \/ PeriodicRefresh
  \/ RefreshSettles
  \/ Logout
  \/ PageReload

AppSpec == AppInit /\ [][AppNext]_vars

\* ======================================================================
\* The pages that call the backend with fetch: PropertyRegistration and
\* Dashboard.  The two components share no state; they are composed here as
\* if both were on screen, inside a session of the two providers.
\* ======================================================================

\* The status codes the backend answers a fetch with.
Statuses == {200, 401, 500}

\* What a page's step received, as a note.
ResponseNote(status, fn) ==
  [k |-> IF status = 200 THEN "response.200"
         ELSE IF status = 401 THEN "response.401" ELSE "response.500",
   f |-> fn]

\* response.ok of fetch.
ResponseOk(status) == status \in 200 .. 299

\* nextStep and prevStep of the wizard.
nextStep_Unguarded(step) == step + 1

nextStep(step) == IF step < 3 THEN step + 1 ELSE step

prevStep(step) == IF step > 1 THEN step - 1 ELSE step

\* The submit button is rendered on the last step and enabled while no
\* submission runs and the form is valid; the other steps render no submit
\* button and several inputs, so the browser submits nothing from them.
CanSubmit == currentStep = 3 /\ ~isSubmitting /\ isValid

\* What onSubmit notes when resumed with the response of fetch: the result
\* handed to onSuccess, or the error logged and handed to onError.
onSubmitNotes(status) ==
  IF ResponseOk(status)
  THEN <<ResponseNote(status, "onSubmit"), [k |-> "onSuccess", f |-> "onSubmit"]>>
  ELSE <<ResponseNote(status, "onSubmit"),
         [k |-> "console.error", f |-> "onSubmit"],
         [k |-> "onError", f |-> "onSubmit"]>>

\* A page step can be taken.
CanPageStep == pageSteps < MaxPageSteps

\* The rest of a step of the form / of the dashboard.
FormStep(n) ==
  /\ pageNotes' = n /\ pageSteps' = pageSteps + 1
  /\ UNCHANGED <<rvars, appvars, dashvars, searchvars>>

DashboardStep(n) ==
  /\ pageNotes' = n /\ pageSteps' = pageSteps + 1
  /\ UNCHANGED <<rvars, appvars, formvars, searchvars>>

\* The button "Suivant", rendered while currentStep < 3.
NextStep ==
  /\ CanPageStep /\ currentStep < 3
  /\ currentStep' = nextStep(currentStep)
  /\ UNCHANGED <<isSubmitting, isValid, submissions>>
  /\ FormStep(<<>>)

\* The button "Precedent", disabled on the first step.
PrevStep ==
  /\ CanPageStep /\ currentStep # 1
  /\ currentStep' = prevStep(currentStep)
  /\ UNCHANGED <<isSubmitting, isValid, submissions>>
  /\ FormStep(<<>>)

\* The user edits a field of step 1 or 2; the resolver validates on change.
FieldsChange ==
  /\ CanPageStep /\ currentStep \in {1, 2}
  /\ isValid' = ~isValid
  /\ UNCHANGED <<currentStep, isSubmitting, submissions>>
  /\ FormStep(<<>>)

\* The form is submitted: onSubmit up to its await of fetch.
Submit ==
  /\ CanPageStep /\ CanSubmit
  /\ isSubmitting' = TRUE
  /\ submissions' = submissions + 1
  /\ UNCHANGED <<currentStep, isValid>>
  /\ FormStep(<<>>)

\* fetch settles and onSubmit runs to its end; it reads the stored token
\* when it sends the request and never writes it.
SubmitSettles ==
  /\ CanPageStep /\ submissions > 0
  /\ \E status \in Statuses :
       /\ isSubmitting' = FALSE
       /\ submissions' = submissions - 1
       /\ UNCHANGED <<currentStep, isValid>>
       /\ FormStep(onSubmitNotes(status))

\* loadDashboardData resumed with the response of fetch.
LoadSettles ==
  /\ CanPageStep /\ loads > 0
  /\ \E status \in Statuses :
       /\ stats' = IF ResponseOk(status) THEN TRUE ELSE stats
       /\ error' = IF ResponseOk(status) THEN error ELSE TRUE
       /\ loading' = FALSE
       /\ loads' = loads - 1
       /\ DashboardStep(<<ResponseNote(status, "loadDashboardData")>>)

\* loadDashboardData up to its await, called by the button of the error
\* view or by the effect after the time range has changed.
loadDashboardDataStart ==
  /\ loading' = TRUE
  /\ loads' = loads + 1
  /\ UNCHANGED <<stats, error>>
  /\ DashboardStep(<<>>)

\* The button of the error view, rendered when loading is over and there is
\* an error or no stats.
RetryLoad ==
  /\ CanPageStep /\ ~loading /\ (error \/ ~stats)
  /\ loadDashboardDataStart

\* The time range select of the loaded view.
ChangeTimeRange ==
  /\ CanPageStep /\ ~loading /\ ~error /\ stats
  /\ loadDashboardDataStart

\* A session of the two providers: the wallet a connected on the right
\* network, the user u logged in or not, the token stored or not.
Session(a, u, token) ==
  [account |-> a, provider |-> TRUE, signer |-> a,
   chainId |-> CURRENT_NETWORK.chainId, isConnecting |-> FALSE, contract |-> a,
   user |-> u, isLoading |-> FALSE,
   intervalAccount |-> IF u = NoUser THEN Null ELSE a,
   authToken |-> token, pending |-> EmptyBag, needsReload |-> FALSE,
   notes |-> <<>>]

\* The pages just mounted, in a session in which a login has stored a token,
\* in one in which the backend sent none, or before any login.
PagesInit ==
  /\ RegistryInit /\ roles = RolesAfterConstructor
  /\ \E a \in Accounts, token \in {Null, Token} :
       \E u \in {NoUser, UserOf(a)} :
         /\ (u = NoUser => token = Null)
         /\ AppIs(Session(a, u, token), TRUE, a, CURRENT_NETWORK.chainId)
  /\ PagesMounted

PagesNext ==
  \/ NextStep
  \/ PrevStep
  \/ FieldsChange
  \/ Submit
  \/ SubmitSettles
  \/ LoadSettles
  \/ RetryLoad
  \/ ChangeTimeRange
  \/ Logout

PagesSpec == PagesInit /\ [][PagesNext]_vars

\* ======================================================================
\* PropertySearch: the debounced search, its effect and loadMore.
\* ======================================================================

\* The queries the user types and the pages the backend holds for every
\* query and filter.
Queries    == {"", "ou"}
TotalPages == 2

\* The body of a successful answer: the page asked for, as one element
\* naming the search it belongs to, or nothing past the last page.
SearchData(x) ==
  [properties  |-> IF x.pageNum < TotalPages THEN <<x>> ELSE <<>>,
   total_count |-> TotalPages]

\* The effect on [query, filters, debouncedSearch]: debouncedSearch for
\* page 0 of the new query and filters, which replaces the invocation lodash
\* holds, and setPage(0).
searchEffect(q, f) ==
  /\ debounced' = SearchArgs(q, f, 0)
  /\ page' = 0

\* The rest of a step of PropertySearch.
SearchStep(n) ==
  /\ pageNotes' = n /\ pageSteps' = pageSteps + 1
  /\ UNCHANGED <<rvars, appvars, formvars, dashvars>>

\* handleQueryChange, handleSuggestionClick: another query.
QueryChange ==
  /\ CanPageStep
  /\ \E q \in Queries \ {query} :
       /\ query' = q
       /\ searchEffect(q, filters)
  /\ UNCHANGED <<filters, totalCount, searchProperties, searchLoading, searches>>
  /\ SearchStep(<<>>)

\* handleFilterChange: another value of a filter.
FilterChange ==
  /\ CanPageStep
  /\ filters' = ~filters
  /\ searchEffect(query, ~filters)
  /\ UNCHANGED <<query, totalCount, searchProperties, searchLoading, searches>>
  /\ SearchStep(<<>>)

\* clearFilters: a new filters object and the empty query.
clearFilters ==
  /\ CanPageStep
  /\ filters' = FALSE /\ query' = ""
  /\ searchEffect("", FALSE)
  /\ UNCHANGED <<totalCount, searchProperties, searchLoading, searches>>
  /\ SearchStep(<<>>)

\* loadMore, from the button rendered while properties.length < totalCount
\* and enabled while loading is false.
loadMore ==
  /\ CanPageStep
  /\ Len(searchProperties) < totalCount /\ ~searchLoading
  /\ \E nextPage \in {page + 1} :
       /\ page' = nextPage
       /\ debounced' = SearchArgs(query, filters, nextPage)
  /\ UNCHANGED <<query, filters, totalCount, searchProperties, searchLoading,
                 searches>>
  /\ SearchStep(<<>>)

\* The timer of debounce fires: the search function runs with the latest
\* arguments, up to its await of fetch.
DebounceFires ==
  /\ CanPageStep
  /\ debounced # NoArgs
  /\ searchLoading' = TRUE
  /\ searches' = searches (+) SetToBag({debounced})
  /\ debounced' = NoArgs
  /\ UNCHANGED <<query, filters, page, totalCount, searchProperties>>
  /\ SearchStep(<<>>)

\* The search function resumed with the response of fetch.
debouncedSearchDone(x, ok) ==
  /\ searches' = searches (-) SetToBag({x})
  /\ searchLoading' = FALSE
  /\ IF ok
     THEN /\ searchProperties' =
               IF x.pageNum = 0 THEN SearchData(x).properties
               ELSE searchProperties \o SearchData(x).properties
          /\ totalCount' = SearchData(x).total_count
          /\ SearchStep(<<[k |-> "response.200", f |-> "debouncedSearch"]>>)
     ELSE /\ UNCHANGED <<searchProperties, totalCount>>
          /\ SearchStep(<<[k |-> "console.error", f |-> "debouncedSearch"]>>)

SearchSettles ==
  /\ CanPageStep
  /\ \E x \in BagToSet(searches), ok \in BOOLEAN : debouncedSearchDone(x, ok)
  /\ UNCHANGED <<query, filters, page, debounced>>

\* PropertySearch just mounted, in a client without a wallet.
SearchInit ==
  /\ RegistryInit /\ roles = RolesAfterConstructor
  /\ AppIs(AfterMount(FALSE), FALSE, Null, CURRENT_NETWORK.chainId)
  /\ PagesMounted

SearchNext ==
  \/ QueryChange
  \/ FilterChange
  \/ clearFilters
  \/ loadMore
  \/ DebounceFires
  \/ SearchSettles

SearchSpec == SearchInit /\ [][SearchNext]_vars

\* ======================================================================
\* Properties
\* ======================================================================
\* The number of positions of seq that hold x.
Occurrences(seq, x) == Cardinality({ i \in 1 .. Len(seq) : seq[i] = x })

\* getPropertiesByOwner(a) contains id.
Lists(s, a, id) == Occurrences(s.ownerProperties[a], id) > 0

\* C1: in every reachable state, every registered property id is listed by
\* getPropertiesByOwner(a) exactly once for a = ownerOf(id) and not at all
\* for every other address a.
C1_IndexMirrorsOwnership ==
  \A id \in Ids :
    exists_(State, id) =>
      \A a \in Addr :
        Occurrences(ownerProperties[a], id) = IF a = owners[id] THEN 1 ELSE 0

\* C2: in every reachable state, no two registered properties have the same
\* location, and a registerProperty call for a location some registered
\* property has reverts.
C2_UniqueLocations ==
  /\ \A i, j \in Ids :
       exists_(State, i) /\ exists_(State, j) /\ i # j
         => properties[i].location # properties[j].location
  /\ \A c \in AllRegisterCalls :
       (\E i \in Ids : exists_(State, i) /\ properties[i].location = c.location)
         => ~registerProperty(State, c, now).ok

\* C3: a successful transferProperty(id, newOwner, v) makes newOwner the owner
\* of id, lists id under newOwner and no longer lists it under the previous
\* owner.
C3_TransferMovesOwnerAndIndex ==
  \A c \in AllTransferPropertyCalls :
    \A r \in {transferProperty(State, c, now)} :
      r.ok =>
        /\ ownerOf(r.s, c.id) = c.newOwner
        /\ Lists(r.s, c.newOwner, c.id)
        /\ ~Lists(r.s, ownerOf(State, c.id), c.id)

\* The role each role-gated function asks of its caller.
RequiredRole(fn) ==
  CASE fn \in {"registerProperty", "transferProperty"} -> NOTARY_ROLE
    [] fn = "verifyProperty" -> SURVEYOR_ROLE
    [] fn = "updatePropertyValue" -> TAX_AUTHORITY_ROLE
    [] fn \in {"changePropertyStatus", "pause", "unpause"} -> ADMIN_ROLE

RoleGatedCalls ==
  AllRegisterCalls \cup AllTransferPropertyCalls \cup AllVerifyCalls
    \cup AllValueCalls \cup AllStatusCalls \cup AllPauseCalls \cup AllUnpauseCalls

\* C4: a call of a role-gated function by an address that does not hold the
\* function's role reverts, whatever other roles the address holds.
C4_RoleGating ==
  \A s \in {State} : \A c \in RoleGatedCalls :
    ~hasRole(s, RequiredRole(c.fn), c.caller) => ~Exec(s, c, now).ok

\* C4 witness: an address holding ADMIN_ROLE and DEFAULT_ADMIN_ROLE but not
\* NOTARY_ROLE makes a registerProperty call that reverts, although the same
\* call by a notary goes through.
C4_Witness ==
  \E c \in AllRegisterCalls, n \in Addr :
    /\ hasRole(State, ADMIN_ROLE, c.caller)
    /\ hasRole(State, DEFAULT_ADMIN_ROLE, c.caller)
    /\ ~hasRole(State, NOTARY_ROLE, c.caller)
    /\ Exec(State, c, now).err = "role"
    /\ Exec(State, [c EXCEPT !.caller = n], now).ok

\* The calls of the five functions that carry whenNotPaused.
PausableCalls ==
  AllRegisterCalls \cup AllTransferPropertyCalls \cup AllVerifyCalls
    \cup AllStatusCalls \cup AllValueCalls

\* C5: while the contract is paused, every call of registerProperty,
\* transferProperty, verifyProperty, changePropertyStatus and
\* updatePropertyValue reverts, whatever roles its caller holds; and a pause
\* followed by an unpause gives back the storage as it was, so that the same
\* calls succeed again exactly when they did before.
C5_PauseHaltsMutations ==
  \A s \in {State} :
    /\ s.paused => \A c \in PausableCalls : ~Exec(s, c, now).ok
    /\ ~s.paused =>
         \A a \in Addr :
           hasRole(s, ADMIN_ROLE, a) =>
             \E p \in {pause(s, [fn |-> "pause", caller |-> a], now)} :
               /\ p.ok /\ p.s.paused
               /\ \A c \in PausableCalls : ~Exec(p.s, c, now).ok
               /\ \E u \in {unpause(p.s, [fn |-> "unpause", caller |-> a], now)} :
                    u.ok /\ Storage(u.s) = s

\* C5 witness: the contract has just been unpaused and a notary's
\* registerProperty call goes through again.
C5_Witness ==
  /\ last = <<[name |-> "Unpaused", id |-> 0]>>
  /\ \E c \in AllRegisterCalls : Exec(State, c, now).ok

\* Every call of every public function.
AllCalls ==
  RoleGatedCalls \cup AllTransferFromCalls \cup AllSafeTransferFromCalls
    \cup AllApproveCalls \cup AllApprovalForAllCalls \cup AllGrantCalls
    \cup AllRevokeCalls \cup AllRenounceCalls

\* C6: a call that reverts, for whatever reason, leaves the id counter, the
\* property structs, the location map, the per-owner lists, token ownership
\* and all the rest of the storage exactly as they were, and emits nothing.
C6_RevertChangesNothing ==
  \A s \in {State} : \A c \in AllCalls :
    propertyIdCounter + Registrations(c) <= MaxProps =>
      \A r \in {Exec(s, c, now)} : ~r.ok => r.s = s

\* C6 witness: a property is registered and a notary's registerProperty call
\* reverts because the recipient contract rejects the token, after the id
\* counter has been incremented and the token minted inside the call.
C6_Witness ==
  /\ propertyIdCounter = 1
  /\ \E c \in AllRegisterCalls :
       /\ Exec(State, c, now).err = "receiver"
       /\ ~registerPropertyEffects(State, c, now).ok
       /\ registerPropertyEffects(State, c, now).s.counter = 2

\* C7: transferProperty reverts when the id was never registered, when
\* newOwner is the zero address, when the property's status is not ACTIVE and
\* when newOwner is the current owner.
C7_TransferRejections ==
  \A s \in {State} : \A c \in AllTransferPropertyCalls :
    ( \/ ~exists_(s, c.id)
      \/ c.newOwner = ZERO
      \/ s.properties[c.id].status \in {"DISPUTED", "FROZEN", "TRANSFERRED"}
      \/ c.newOwner = ownerOf(s, c.id) )
    => ~transferProperty(s, c, now).ok

\* C7 witness: a notary's transferProperty call to another address reverts
\* only because the property is FROZEN.
C7_Witness ==
  \E c \in AllTransferPropertyCalls :
    /\ exists_(State, c.id)
    /\ properties[c.id].status = "FROZEN"
    /\ transferProperty(State, c, now).err = "Property is not transferable"

\* C8: a successful transferProperty(id, newOwner, v) leaves property id with
\* status ACTIVE, value v and lastTransferDate the block time, and with every
\* other field of the struct as it was; no other struct changes.
C8_TransferUpdatesStruct ==
  \A s \in {State} : \A c \in AllTransferPropertyCalls :
    \A r \in {transferProperty(s, c, now)} :
      r.ok =>
        /\ r.s.properties[c.id].status = "ACTIVE"
        /\ r.s.properties =
             [s.properties EXCEPT ![c.id].value = c.value,
                                  ![c.id].lastTransferDate = now]

\* C8 witness: a property registered in an earlier block has just been
\* transferred: its lastTransferDate is the later block's time.
C8_Witness ==
  \E id \in Ids :
    /\ [name |-> "PropertyTransferred", id |-> id] \in { last[i] : i \in 1 .. Len(last) }
    /\ properties[id].registrationDate < properties[id].lastTransferDate
    /\ properties[id].lastTransferDate = now
    /\ properties[id].status = "ACTIVE"

\* The calls of C9's four functions, without calls made from a callback.
NonStatusCalls ==
  { c \in AllRegisterCalls : c.cb.calls = <<>> } \cup AllTransferPropertyCalls
    \cup AllVerifyCalls \cup AllValueCalls

\* C9: in every transaction that changes the status of a property registered
\* before it, a changePropertyStatus call went through (its event is in the
\* transaction's log); and registerProperty, transferProperty, verifyProperty
\* and updatePropertyValue leave the status of every registered property as
\* it was.
C9_StatusChangesOnlyByAdminCall ==
  /\ [](\A s \in {State} : \A c \in NonStatusCalls :
          propertyIdCounter + Registrations(c) <= MaxProps =>
            \A r \in {Exec(s, c, now)} :
              r.ok => \A id \in Ids :
                        exists_(s, id) =>
                          r.s.properties[id].status = s.properties[id].status)
  /\ [][\A id \in Ids :
          exists_(State, id) /\ properties'[id].status # properties[id].status
            => \E i \in 1 .. Len(last') :
                 last'[i] = [name |-> "PropertyStatusChanged", id |-> id]]_vars

\* C9 witness: a property that an admin has put in dispute has just been
\* verified by a surveyor and is still DISPUTED.
C9_Witness ==
  \E id \in Ids :
    /\ last = <<[name |-> "PropertyVerified", id |-> id]>>
    /\ properties[id].status = "DISPUTED"

\* verifyProperty(id, b) called twice in a row by a surveyor: both calls
\* succeed, the second changes nothing, and the flag is b.
VerifyTwice(s, c) ==
  \E r1 \in {verifyProperty(s, c, now)} :
    /\ r1.ok
    /\ r1.s.properties[c.id].verified = c.isVerified
    /\ \E r2 \in {verifyProperty(Storage(r1.s), c, now)} :
         r2.ok /\ Storage(r2.s) = Storage(r1.s)

\* C10 as stated: verifyProperty always succeeds for a surveyor on an existing
\* property, and is idempotent.
C10_VerifyAlwaysSucceeds ==
  \A s \in {State} : \A c \in AllVerifyCalls :
    hasRole(s, SURVEYOR_ROLE, c.caller) /\ exists_(s, c.id) => VerifyTwice(s, c)

\* C10 amended: while the contract is not paused, verifyProperty succeeds for
\* a surveyor on an existing property, sets the flag to the given value
\* whatever it was, and a second identical call succeeds and changes nothing.
C10_VerifyIdempotentUnlessPaused ==
  \A s \in {State} : \A c \in AllVerifyCalls :
    hasRole(s, SURVEYOR_ROLE, c.caller) /\ exists_(s, c.id) /\ ~s.paused
      => VerifyTwice(s, c)

\* C10 witness: a surveyor has just set a property's flag to TRUE, and the
\* same call made again succeeds.
C10_Witness ==
  \E c \in AllVerifyCalls :
    /\ last = <<[name |-> "PropertyVerified", id |-> c.id]>>
    /\ c.isVerified /\ properties[c.id].verified
    /\ verifyProperty(State, c, now).ok

\* C11: registered properties are never deleted.  In every state the existing
\* ids are exactly 1 .. getTotalProperties() and getProperty succeeds for each
\* of them; no step lowers getTotalProperties() or makes an existing id cease
\* to exist.
C11_NeverDeleted ==
  /\ [](\A s \in {State} :
          /\ { id \in Ids : exists_(s, id) } = 1 .. getTotalProperties(s)
          /\ \A id \in 1 .. getTotalProperties(s) : getProperty(s, id).ok)
  /\ [][/\ propertyIdCounter' >= propertyIdCounter
        /\ \A id \in Ids : owners[id] # ZERO => owners'[id] # ZERO]_vars

\* C11 witness: both properties are registered and the first has since been
\* moved by an ERC721 transfer.
C11_Witness ==
  /\ getTotalProperties(State) = MaxProps
  /\ last = <<[name |-> "Transfer", id |-> 1]>>
  /\ getProperty(State, 1).ok

\* What C12 says of a successful registerProperty call c that took the
\* storage from s to r: the id, the owner, the owner's list, the location map
\* and the stored struct.
RegisterPostcondition(s, c, r) ==
  LET id == getTotalProperties(s) + 1
  IN  /\ newPropertyId(s) = id
      /\ getTotalProperties(r) = id
      /\ ownerOf(r, id) = c.owner
      /\ getPropertiesByOwner(r, c.owner)
           = Append(getPropertiesByOwner(s, c.owner), id)
      /\ getPropertyIdByLocation(r, c.location) = id
      /\ getProperty(r, id).ok
      /\ getProperty(r, id).val =
           [id |-> id, location |-> c.location,
            coordinates |-> c.deed.coordinates, area |-> c.deed.area,
            value |-> c.deed.value, propertyType |-> c.deed.propertyType,
            status |-> "ACTIVE", registrationDate |-> now,
            lastTransferDate |-> now, documentHash |-> c.deed.documentHash,
            registrar |-> c.caller, verified |-> FALSE]

\* C12: a successful registerProperty by a notary returns the previous total
\* plus one, makes the given owner the owner of that token, appends the id to
\* the owner's list, maps the location to the id and stores exactly the given
\* attributes with status ACTIVE, verified false, the caller as registrar and
\* both dates equal to the block time.
C12_RegisterStoresProperty ==
  \A s \in {State} : \A c \in AllRegisterCalls :
    propertyIdCounter + Registrations(c) <= MaxProps =>
      \A r \in {registerProperty(s, c, now)} :
        r.ok => RegisterPostcondition(s, c, r.s)

\* C13: every registered property has a non-empty location, an area greater
\* than 0 and a non-zero owner; registerProperty reverts for a zero owner, an
\* empty location or a zero area; and no step changes the location or the
\* area of a property registered before it.
C13_WellFormedProperties ==
  /\ [](\A s \in {State} :
          /\ \A id \in 1 .. getTotalProperties(s) :
               /\ getProperty(s, id).ok
               /\ getProperty(s, id).val.location # ""
               /\ getProperty(s, id).val.area > 0
               /\ ownerOf(s, id) # ZERO
          /\ \A c \in AllRegisterCalls :
               c.owner = ZERO \/ c.location = "" \/ c.deed.area = 0
                 => ~registerProperty(s, c, now).ok)
  /\ [][\A id \in 1 .. propertyIdCounter :
          /\ properties'[id].location = properties[id].location
          /\ properties'[id].area = properties[id].area]_vars

\* C13 witness: a registered property has just been transferred by a notary,
\* and a registration with area 0 is being refused.
C13_Witness ==
  /\ \E id \in 1 .. propertyIdCounter :
       last = <<[name |-> "Transfer", id |-> id],
                [name |-> "PropertyTransferred", id |-> id]>>
  /\ \E c \in AllRegisterCalls :
       /\ c.owner # ZERO /\ c.location # "" /\ c.deed.area = 0
       /\ hasRole(State, NOTARY_ROLE, c.caller) /\ ~paused
       /\ registerProperty(State, c, now).err = "Area must be greater than 0"

\* The fields of the Property struct.
PropertyFields == DOMAIN NoProperty

\* Storage r is storage s except, at most, for one field of property id.
OnlyFieldChanged(s, r, id, field) ==
  /\ r.counter = s.counter
  /\ r.owners = s.owners
  /\ r.tokenApprovals = s.tokenApprovals
  /\ r.operatorApprovals = s.operatorApprovals
  /\ r.tokenURIs = s.tokenURIs
  /\ r.locationToPropertyId = s.locationToPropertyId
  /\ r.ownerProperties = s.ownerProperties
  /\ r.roles = s.roles
  /\ r.paused = s.paused
  /\ \A j \in Ids \ {id} : r.properties[j] = s.properties[j]
  /\ \A f \in PropertyFields \ {field} :
       r.properties[id][f] = s.properties[id][f]

\* C14: a successful verifyProperty changes only the verified flag of the
\* addressed property, updatePropertyValue only its value, changePropertyStatus
\* only its status, each to the value given; ownership, the per-owner lists,
\* the location map, the counter and every other property stay as they were;
\* and updatePropertyValue reverts for a new value of 0.
C14_SettersChangeOneAttribute ==
  \A s \in {State} :
    /\ \A c \in AllVerifyCalls : \A r \in {verifyProperty(s, c, now)} :
         r.ok => /\ OnlyFieldChanged(s, r.s, c.id, "verified")
                 /\ r.s.properties[c.id].verified = c.isVerified
    /\ \A c \in AllValueCalls : \A r \in {updatePropertyValue(s, c, now)} :
         /\ c.value = 0 => ~r.ok
         /\ r.ok => /\ OnlyFieldChanged(s, r.s, c.id, "value")
                    /\ r.s.properties[c.id].value = c.value
    /\ \A c \in AllStatusCalls : \A r \in {changePropertyStatus(s, c, now)} :
         r.ok => /\ OnlyFieldChanged(s, r.s, c.id, "status")
                 /\ r.s.properties[c.id].status = c.newStatus

\* C14 witness: an admin has just frozen a property that a surveyor had
\* verified, and the flag is still set.
C14_Witness ==
  \E id \in Ids :
    /\ last = <<[name |-> "PropertyStatusChanged", id |-> id]>>
    /\ properties[id].status = "FROZEN"
    /\ properties[id].verified
    /\ ownerOf(State, id) # ZERO

\* C15: the read accessors agree.  For every registered id, getProperty(id)
\* carries that id and getPropertyIdByLocation of its location gives the id
\* back; a location at which nothing is registered maps to 0, and 0 is not
\* the id of a property; getProperty reverts for every id not registered.
C15_AccessorsAgree ==
  \A s \in {State} :
    /\ \A id \in 1 .. getTotalProperties(s) :
         /\ getProperty(s, id).ok
         /\ getProperty(s, id).val.id = id
         /\ getPropertyIdByLocation(s, getProperty(s, id).val.location) = id
    /\ \A l \in Locations \cup {""} :
         (\A id \in 1 .. getTotalProperties(s) : s.properties[id].location # l)
           => getPropertyIdByLocation(s, l) = 0
    /\ ~getProperty(s, 0).ok
    /\ \A id \in AnyId \ (1 .. getTotalProperties(s)) : ~getProperty(s, id).ok

\* C20: the owner of a registered property changes only in a transaction in
\* which a transferProperty call went through (its event is in the
\* transaction's log), and a property that is DISPUTED or FROZEN does not
\* change owner.
C20_OwnerChangesOnlyByTransferProperty ==
  [][\A id \in Ids :
       exists_(State, id) /\ owners'[id] # owners[id]
         => /\ \E i \in 1 .. Len(last') :
                 last'[i] = [name |-> "PropertyTransferred", id |-> id]
            /\ properties[id].status \notin {"DISPUTED", "FROZEN"}]_vars

\* ------------------------------------------------- properties of the client
\* The latest step threw an error out of fn.
Threw(n, fn) == \E i \in 1 .. Len(n) : n[i] = [k |-> "throw", f |-> fn]


\* The call x is resumed by the step / the call y starts waiting in it.
Resumed(x) == CopiesIn(x, pending') < CopiesIn(x, pending)
Started(y) == CopiesIn(y, pending') > CopiesIn(y, pending)

\* The login calls in flight.
Logins == { x \in BagToSet(pending) : x.fn = "login" }

\* Login sets the user or stores a token only when it is resumed from
\* authenticateUser and does not reject, and it waits for authenticateUser
\* only when resumed from signMessage with a signature.
LoginOrder ==
  /\ \A x \in Logins :
       Resumed(x) /\ (user' # user \/ authToken' \notin {authToken, Null})
         => /\ x.pc = "authenticateUser"
            /\ ~Threw(notes', "login")
            /\ user' = x.usr
  /\ \A y \in BagToSet(pending') :
       y.fn = "login" /\ y.pc = "authenticateUser" /\ Started(y)
         => \E x \in Logins : x.pc = "signMessage" /\ Resumed(x)
                                /\ ~Threw(notes', "login")

\* C16 as stated: the user is set and the token stored only after the
\* signature and a successful authenticate call, in that order; and when
\* login rejects, the user and the stored token are as they were before the
\* step and isLoading is false.
C16_LoginLeavesStateOnFailure ==
  [][~needsReload =>
       /\ LoginOrder
       /\ Threw(notes', "login")
            => user' = user /\ authToken' = authToken /\ ~isLoading']_vars

\* C16 amended: as above, except that the stored token is removed when the
\* backend answers one of login's requests with 401 (the response
\* interceptor), and that isLoading is false once a login that got past the
\* wallet check has settled; a login refused by the wallet check leaves
\* isLoading as it was.
C16_LoginLeavesStateUnless401 ==
  [][~needsReload =>
       /\ LoginOrder
       /\ Threw(notes', "login")
            => /\ user' = user
               /\ \/ authToken' = authToken
                  \/ authToken' = Null /\ needsReload'
               /\ IF \E x \in Logins : Resumed(x) THEN ~isLoading'
                  ELSE isLoading' = isLoading
       /\ \A x \in Logins :
            Resumed(x) /\ x.pc = "authenticateUser" => ~isLoading']_vars

\* C16 witness: a login has just been rejected after the backend refused
\* it, while the user and the token of an earlier login are still there.
C16_Witness ==
  /\ Threw(notes, "login")
  /\ user # NoUser /\ authToken = Token /\ ~isLoading
  /\ ~needsReload

\* The latest step ended an operation of fn in an error that was logged or
\* thrown / showed a toast that reports a failure.
Rejected(n, fn) == \E i \in 1 .. Len(n) :
                     n[i].f = fn /\ n[i].k \in {"console.error", "throw"}
ErrorToast(n)   == \E i \in 1 .. Len(n) : n[i].k \in {"toast.error", "toast.warning"}

\* The asynchronous operations of the two providers.
ProviderOperations == {"connectWallet", "login", "updateProfile", "refreshUser"}

\* C19: every rejected asynchronous operation of the client (wallet
\* connection, login, profile update, user refresh) shows a toast to the
\* user; none ends with the error only logged or only thrown again.
C19_EveryRejectionToasts ==
  \A fn \in ProviderOperations : Rejected(notes, fn) => ErrorToast(notes)

\* The part of C19 that holds: a rejected wallet connection or login.
C19_ConnectAndLoginToast ==
  \A fn \in {"connectWallet", "login"} : Rejected(notes, fn) => ErrorToast(notes)

\* ------------------------------------------------- properties of the pages
\* The latest step of a page received the status 401.
Received401(n) == \E i \in 1 .. Len(n) : n[i].k = "response.401"

\* The requests of the apiService client: a 401 answer leaves no token.
InterceptorClearsToken ==
  \A resp \in Responses :
    resp.status = 401 => responseInterceptor(App, resp).authToken = Null

\* C17: whenever the client receives a 401 answer, the stored token is
\* removed, on the request path of the apiService client and on the path of
\* the components that call fetch themselves.
C17_UnauthorizedClearsToken ==
  /\ InterceptorClearsToken
  /\ Received401(pageNotes) => authToken = Null

\* C18: the wizard has exactly three steps: currentStep starts at 1 and stays
\* in {1, 2, 3} whatever nextStep and prevStep calls are made; nextStep at
\* step 3 and prevStep at step 1 leave it as it is; a submission starts only
\* from step 3.
C18_ThreeStepWizard ==
  /\ currentStep = 1
  /\ [][/\ currentStep' \in {1, 2, 3}
        /\ nextStep(currentStep') \in {1, 2, 3}
        /\ prevStep(currentStep') \in {1, 2, 3}
        /\ currentStep' = 3 => nextStep(currentStep') = 3
        /\ currentStep' = 1 => prevStep(currentStep') = 1
        /\ submissions' > submissions => currentStep = 3 /\ currentStep' = 3]_vars

\* C18 witness: the wizard was taken to step 3 with a valid form and a
\* submission made there is waiting for the backend.
C18_Witness ==
  /\ currentStep = 3 /\ isValid
  /\ submissions = 1 /\ isSubmitting

\* C21: registerProperty is safe against re-entry through onERC721Received:
\* after every transaction, whatever the recipient called during the
\* callback, every registered id has an initialised struct, every registered
\* location maps to exactly one id, whose stored location it is, and no two
\* properties share a location.
C21_RegisterSafeAgainstReentry ==
  \A s \in {State} :
    /\ \A id \in 1 .. getTotalProperties(s) :
         /\ exists_(s, id)
         /\ s.properties[id].id = id
         /\ s.properties[id].location # ""
         /\ s.properties[id].registrationDate > 0
         /\ getPropertyIdByLocation(s, s.properties[id].location) = id
    /\ \A location \in Locations :
         getPropertyIdByLocation(s, location) # 0
           => s.properties[getPropertyIdByLocation(s, location)].location = location
    /\ \A i, j \in 1 .. getTotalProperties(s) :
         i # j => s.properties[i].location # s.properties[j].location

\* The ids of the tokens that exist.
ExistingIds(s) == { id \in Ids : exists_(s, id) }

\* C27: while the contract is paused token ownership cannot change by any
\* path: every step taken from a paused state leaves the owner of every
\* token and the set of existing ids as they were, and every call of the
\* inherited transferFrom and safeTransferFrom reverts.
C27_PausedOwnershipFrozen ==
  /\ [](paused =>
          \A c \in AllTransferFromCalls \cup AllSafeTransferFromCalls :
            ~Exec(State, c, now).ok)
  /\ [][paused =>
          \A s \in {State} :
            /\ owners' = s.owners
            /\ { id \in Ids : owners'[id] # ZERO } = ExistingIds(s)]_vars

\* C27 witness: the contract is paused, a property is registered, and its
\* owner's transferFrom call, which would go through if the contract were
\* not paused, reverts.
C27_Witness ==
  /\ paused
  /\ \E c \in AllTransferFromCalls :
       /\ exists_(State, c.id) /\ c.caller = ownerOf(State, c.id)
       /\ ~Exec(State, c, now).ok
       /\ Exec([State EXCEPT !.paused = FALSE], c, now).ok

\* C22: whenever isAuthenticated is true, the user held by AuthProvider is
\* the user of the connected wallet account.
C22_UserIsConnectedAccount ==
  isAuthenticated(App) => user.wallet_address = account

\* The connectWallet calls in flight.
Connecting == { x \in BagToSet(pending) : x.fn = "connectWallet" }

\* C23: once an accountsChanged event has been handled and the reconnection
\* it starts has settled, account, signer and contract refer to the same
\* wallet account; they never remain bound to different accounts.
C23_SignerFollowsAccount ==
  account # Null /\ Connecting = {}
    => /\ signer # Null => signer = account
       /\ contract # Null => contract = account

\* The provider holds no connection / the latest step ran disconnectWallet.
Disconnected(a) ==
  /\ a.account = Null /\ ~a.provider /\ a.signer = Null
  /\ a.chainId = NoChainId /\ a.contract = Null
JustDisconnected(n) ==
  \E i \in 1 .. Len(n) : n[i] = [k |-> "toast.info", f |-> "disconnectWallet"]

\* C24: after disconnectWallet() account, provider, signer, chainId and
\* contract are all null, and the step that follows, in which no connectWallet
\* call started since the disconnect can have settled, leaves them null, even
\* when a connectWallet call was awaiting the wallet at the disconnect.
C24_DisconnectedStaysDisconnected ==
  /\ [](JustDisconnected(notes) => Disconnected(App))
  /\ [][JustDisconnected(notes) => Disconnected(App')]_vars

\* The part of C24 that holds: the state disconnectWallet leaves.
C24_DisconnectClearsAll == JustDisconnected(notes) => Disconnected(App)

\* C26: the contract instance is non-null only while the wallet is on the
\* configured network.
C26_ContractOnlyOnConfiguredNetwork ==
  contract # Null => walletChain = CURRENT_NETWORK.chainId

\* The part of C26 that holds: connectWallet creates no contract when the
\* wallet is on another chain and the switch fails.
C26_NoContractAfterFailedSwitch ==
  \A x \in Waiting("connectWallet", "switchToCorrectNetwork") :
    connectWalletSwitched(Resume(App, x), x, FALSE).contract = contract

\* C28: isConnecting is true exactly while a connectWallet call is in
\* progress: true while some call is awaiting the wallet, false when none is.
C28_IsConnectingWhileConnecting ==
  isConnecting <=> Connecting # {}

\* The part of C28 that holds: isConnecting is false when no connectWallet
\* call is in progress.
C28_NotConnectingWhenIdle ==
  Connecting = {} => ~isConnecting

\* ------------------------------------------------ properties of the search
RECURSIVE PagesUpTo(_, _, _)
\* Pages 0 .. p of the results for the query q and the filters f.
PagesUpTo(q, f, p) ==
  IF p < 0 THEN <<>>
  ELSE PagesUpTo(q, f, p - 1) \o SearchData(SearchArgs(q, f, p)).properties

\* No search is waiting for its timer or for the backend.
SearchSettled == debounced = NoArgs /\ searches = EmptyBag

\* C25: once all requests have settled, the list PropertySearch shows is
\* pages 0 .. page, in order and without gaps, of the results for the latest
\* query and filters.
C25_ListMatchesQuery ==
  SearchSettled => searchProperties = PagesUpTo(query, filters, page)

====
